---- MODULE Spec2Model ----
(***************************************************************************)
(* Gradual type system over a class hierarchy: the static subtyping        *)
(* lattice (src/static), the specification resolver, gradual subtyping     *)
(* (src/gradual) and the evidence algebra (src/gradual/evidence).          *)
(*                                                                         *)
(* The library is a set of pure functions over an immutable Environment.   *)
(* The state is the Environment a caller built, the last call made on it   *)
(* and the value that call returned.                                       *)
(***************************************************************************)
EXTENDS Integers, Sequences, FiniteSets, TLC

VARIABLES env, call, ret

vars == <<env, call, ret>>

(***************************************************************************)
(* Bounds                                                                  *)
(***************************************************************************)
MaxEdges == 3
MaxArity == 2

(***************************************************************************)
(* Types.  Every type is a record of the same shape so that any two types  *)
(* can be compared: k is the Python class, n the class name, dom the       *)
(* domain tuple and cod the codomain (a sequence of length one for the     *)
(* function kinds, empty otherwise).                                       *)
(***************************************************************************)
TopType == [k |-> "top", n |-> "", dom |-> <<>>, cod |-> <<>>]

BottomType == [k |-> "bot", n |-> "", dom |-> <<>>, cod |-> <<>>]

Unknown == [k |-> "unk", n |-> "", dom |-> <<>>, cod |-> <<>>]

ClassName(name) == [k |-> "cls", n |-> name, dom |-> <<>>, cod |-> <<>>]

FunctionType(domain, codomain) ==
  [k |-> "fun", n |-> "", dom |-> domain, cod |-> <<codomain>>]

GradualFunctionType(domain, codomain) ==
  [k |-> "gfun", n |-> "", dom |-> domain, cod |-> <<codomain>>]

Edge(source, target) == [source |-> source, target |-> target]

Signature(var, type) == [var |-> var, type |-> type]

Environment(Ns, Es, sigma) == [Ns |-> Ns, Es |-> Es, sigma |-> sigma]

(***************************************************************************)
(* Static subtyping                                                        *)
(***************************************************************************)
is_direct_subtype_reversed(environment, class_name_1, class_name_2) ==
  \E i \in 1..Len(environment.Es) :
     /\ environment.Es[i].source = class_name_2
     /\ environment.Es[i].target = class_name_1

is_direct_subtype(environment, class_name_1, class_name_2) ==
  \E i \in 1..Len(environment.Es) :
     /\ environment.Es[i].source = class_name_1
     /\ environment.Es[i].target = class_name_2

RECURSIVE is_subtype_v(_, _, _, _)
RECURSIVE is_subtype_edges(_, _, _, _, _)
RECURSIVE is_subtype_domain(_, _, _, _, _)

\* is_subtype without its three shortcuts (t1 == t2, TopType on the right,
\* BottomType on the left).
is_subtype_v_no_shortcuts(environment, t1, t2, visited) ==
  IF <<t1, t2>> \in visited THEN [r |-> FALSE, v |-> visited]
  ELSE
    LET v1 == visited \cup {<<t1, t2>>} IN
    IF t1.k = "fun" /\ t2.k = "fun" THEN
      IF Len(t1.dom) # Len(t2.dom) THEN [r |-> FALSE, v |-> v1]
      ELSE
        LET domain_check == is_subtype_domain(environment, t1.dom, t2.dom, 1, v1)
            codomain_check ==
              is_subtype_v(environment, t1.cod[1], t2.cod[1], domain_check.v)
        IN [r |-> domain_check.r /\ codomain_check.r, v |-> codomain_check.v]
    ELSE IF t1.k = "cls" /\ t2.k = "cls" THEN
      IF is_direct_subtype(environment, t1, t2) THEN [r |-> TRUE, v |-> v1]
      ELSE is_subtype_edges(environment, 1, t1, t2, v1)
    ELSE [r |-> FALSE, v |-> v1]

\* is_subtype with the visited set threaded through: the result is the
\* returned boolean r together with the visited set v as the call left it.
is_subtype_v(environment, t1, t2, visited) ==
  IF <<t1, t2>> \in visited THEN [r |-> FALSE, v |-> visited]
  ELSE
    LET v1 == visited \cup {<<t1, t2>>} IN
    IF t1 = t2 THEN [r |-> TRUE, v |-> v1]
    ELSE IF t2.k = "top" THEN [r |-> TRUE, v |-> v1]
    ELSE IF t1.k = "bot" THEN [r |-> TRUE, v |-> v1]
    ELSE IF t1.k = "fun" /\ t2.k = "fun" THEN
      IF Len(t1.dom) # Len(t2.dom) THEN [r |-> FALSE, v |-> v1]
      ELSE
        LET domain_check == is_subtype_domain(environment, t1.dom, t2.dom, 1, v1)
            codomain_check ==
              is_subtype_v(environment, t1.cod[1], t2.cod[1], domain_check.v)
        IN [r |-> domain_check.r /\ codomain_check.r, v |-> codomain_check.v]
    ELSE IF t1.k = "cls" /\ t2.k = "cls" THEN
      IF is_direct_subtype(environment, t1, t2) THEN [r |-> TRUE, v |-> v1]
      ELSE is_subtype_edges(environment, 1, t1, t2, v1)
    ELSE [r |-> FALSE, v |-> v1]

\* for edge in environment.Es: the first edge out of t1 whose target is a
\* subtype of t2 returns True; every failed attempt leaves its visited pairs.
is_subtype_edges(environment, i, t1, t2, visited) ==
  IF i > Len(environment.Es) THEN [r |-> FALSE, v |-> visited]
  ELSE IF environment.Es[i].source = t1 THEN
    LET sub == is_subtype_v(environment, environment.Es[i].target, t2, visited)
    IN IF sub.r THEN [r |-> TRUE, v |-> sub.v]
       ELSE is_subtype_edges(environment, i + 1, t1, t2, sub.v)
  ELSE is_subtype_edges(environment, i + 1, t1, t2, visited)

\* all(is_subtype(t2_arg, t1_arg, visited) for ... in zip(...)): stops at
\* the first position that fails.
is_subtype_domain(environment, dom1, dom2, i, visited) ==
  IF i > Len(dom1) THEN [r |-> TRUE, v |-> visited]
  ELSE
    LET sub == is_subtype_v(environment, dom2[i], dom1[i], visited)
    IN IF sub.r THEN is_subtype_domain(environment, dom1, dom2, i + 1, sub.v)
       ELSE [r |-> FALSE, v |-> sub.v]

\* A fresh call: visited=None.
is_subtype(environment, t1, t2) == is_subtype_v(environment, t1, t2, {}).r

(***************************************************************************)
(* Environments of the subtyping specification: three class names, every   *)
(* list of at most MaxEdges distinct edges over them (self-loops and       *)
(* cycles included), no declared members.                                  *)
(***************************************************************************)
SubNames == {"A", "B", "C"}

SubClasses == {ClassName(name) : name \in SubNames}

SubEdges == {Edge(s, t) : s \in SubClasses, t \in SubClasses}

RECURSIVE EdgeLists(_, _)
EdgeLists(S, len) ==
  IF len = 0 THEN {<<>>}
  ELSE LET shorter == EdgeLists(S, len - 1) IN
       shorter \cup
       {Append(es, e) : es \in {l \in shorter : Len(l) = len - 1}, e \in S}

NoRepeat(es) == \A i, j \in 1..Len(es) : es[i] = es[j] => i = j

EmptySigma(names) == [name \in names |-> {}]

SubEnvs ==
  {Environment(SubClasses, es, EmptySigma(SubNames)) :
     es \in {l \in EdgeLists(SubEdges, MaxEdges) : NoRepeat(l)}}

NoCall == [op |-> "none"]

StaticArgs == SubClasses \cup {TopType, BottomType}

\* The caller is between two calls: the previous result has been consumed.
Idle == call = NoCall

Return ==
  /\ call # NoCall
  /\ call' = NoCall
  /\ ret' = FALSE
  /\ UNCHANGED env

Call_is_subtype ==
  /\ Idle
  /\ \E t1 \in StaticArgs, t2 \in StaticArgs :
       /\ call' = [op |-> "is_subtype", t1 |-> t1, t2 |-> t2]
       /\ ret' = is_subtype(env, t1, t2)
  /\ UNCHANGED env

Init == env \in SubEnvs /\ call = NoCall /\ ret = FALSE

Next == Call_is_subtype \/ Return

Spec == Init /\ [][Next]_vars

(***************************************************************************)
(* Reference relation: reachability along declared edges.                  *)
(***************************************************************************)
RECURSIVE PathWithin(_, _, _, _)
PathWithin(environment, a, b, steps) ==
  \/ a = b
  \/ /\ steps > 0
     /\ \E i \in 1..Len(environment.Es) :
          /\ environment.Es[i].source = a
          /\ PathWithin(environment, environment.Es[i].target, b, steps - 1)

HasPath(environment, a, b) ==
  PathWithin(environment, a, b, Len(environment.Es))

\* C1: a fresh is_subtype call on two class names is true exactly when the
\* names are equal or a directed path of declared edges leads from the
\* first to the second.
C1_SubtypeIsReachability ==
  (call.op = "is_subtype" /\ call.t1.k = "cls" /\ call.t2.k = "cls")
    => (ret <=> HasPath(env, call.t1, call.t2))

\* C1 witness: a subtype judgment that needs at least two edges.
C1_Witness ==
  /\ call.op = "is_subtype" /\ call.t1.k = "cls" /\ call.t2.k = "cls"
  /\ ret = TRUE
  /\ call.t1 # call.t2
  /\ ~is_direct_subtype(env, call.t1, call.t2)

(***************************************************************************)
(* Function types and gradual subtyping.  Environments: every list of at   *)
(* most MaxFunEdges distinct edges over the three class names.             *)
(***************************************************************************)
is_gradual_subtype_no_left_unknown(environment, t1, t2) ==
  IF t1 = t2 THEN TRUE
  ELSE IF t2.k = "top" THEN TRUE
  ELSE IF t1.k = "bot" THEN TRUE
  ELSE IF t2.k = "unk" THEN TRUE
  ELSE IF t1.k = "gfun" /\ t2.k = "gfun" THEN
    IF Len(t1.dom) # Len(t2.dom) THEN FALSE
    ELSE
      LET domain_check ==
            is_subtype_domain(environment, t1.dom, t2.dom, 1, {<<t1, t2>>})
          codomain_check ==
            is_subtype_v(environment, t1.cod[1], t2.cod[1], domain_check.v)
      IN domain_check.r /\ codomain_check.r
  ELSE IF t1.k = "cls" /\ t2.k = "cls" THEN is_subtype(environment, t1, t2)
  ELSE FALSE

\* A fresh call of is_gradual_subtype: visited starts empty, so the guard on
\* (t1, t2) never fires and visited is {(t1, t2)} below it.  The components
\* of two function types are compared by the static is_subtype.
is_gradual_subtype(environment, t1, t2) ==
  IF t1 = t2 THEN TRUE
  ELSE IF t2.k = "top" THEN TRUE
  ELSE IF t1.k = "bot" THEN TRUE
  ELSE IF t2.k = "unk" THEN TRUE
  ELSE IF t1.k = "unk" THEN TRUE
  ELSE IF t1.k = "gfun" /\ t2.k = "gfun" THEN
    IF Len(t1.dom) # Len(t2.dom) THEN FALSE
    ELSE
      LET domain_check ==
            is_subtype_domain(environment, t1.dom, t2.dom, 1, {<<t1, t2>>})
          codomain_check ==
            is_subtype_v(environment, t1.cod[1], t2.cod[1], domain_check.v)
      IN domain_check.r /\ codomain_check.r
  ELSE IF t1.k = "cls" /\ t2.k = "cls" THEN is_subtype(environment, t1, t2)
  ELSE FALSE

MaxFunEdges == 2

FunEnvs ==
  {Environment(SubClasses, es, EmptySigma(SubNames)) :
     es \in {l \in EdgeLists(SubEdges, MaxFunEdges) : NoRepeat(l)}}

RECURSIVE Tuples(_, _)
\* Every tuple over S of length 1..len.
Tuples(S, len) ==
  IF len = 0 THEN {}
  ELSE LET shorter == Tuples(S, len - 1) IN
       shorter \cup {<<e>> : e \in S} \cup
       {Append(t, e) : t \in {u \in shorter : Len(u) = len - 1}, e \in S}

FunComponents == {ClassName("A"), ClassName("B")}

FunTypes ==
  {FunctionType(d, c) : d \in Tuples(FunComponents, MaxArity), c \in FunComponents}

GradualComponents == {Unknown, ClassName("A"), ClassName("B")}

GradualFunTypes ==
  {GradualFunctionType(d, c) :
     d \in Tuples(GradualComponents, MaxArity), c \in GradualComponents}

GradualArgs ==
  {Unknown, TopType, BottomType} \cup SubClasses \cup GradualFunTypes
    \cup {FunctionType(<<ClassName("A")>>, ClassName("B"))}

Call_is_subtype_fun ==
  /\ Idle
  /\ \E t1 \in FunTypes, t2 \in FunTypes :
       /\ call' = [op |-> "is_subtype", t1 |-> t1, t2 |-> t2]
       /\ ret' = is_subtype(env, t1, t2)
  /\ UNCHANGED env

\* Calls with Unknown on one side, with two non-function types, and with
\* two gradual function types.
Call_is_gradual_subtype ==
  /\ Idle
  /\ \E t1 \in GradualArgs, t2 \in GradualArgs :
       /\ \/ t1 = Unknown
          \/ t2 = Unknown
          \/ (t1.k # "gfun" /\ t2.k # "gfun")
          \/ (t1.k = "gfun" /\ t2.k = "gfun")
       /\ call' = [op |-> "is_gradual_subtype", t1 |-> t1, t2 |-> t2]
       /\ ret' = is_gradual_subtype(env, t1, t2)
  /\ UNCHANGED env

InitFun == env \in FunEnvs /\ call = NoCall /\ ret = FALSE

NextFun == Call_is_subtype_fun \/ Call_is_gradual_subtype \/ Return

SpecFun == InitFun /\ [][NextFun]_vars

\* C2: on two function types a fresh is_subtype call is true exactly when
\* the arities agree, every domain component of the second is a subtype of
\* the matching component of the first, and the first codomain is a subtype
\* of the second.
C2_FunctionSubtyping ==
  (call.op = "is_subtype" /\ call.t1.k = "fun" /\ call.t2.k = "fun")
    => (ret <=>
          /\ Len(call.t1.dom) = Len(call.t2.dom)
          /\ \A i \in 1..Len(call.t1.dom) :
               is_subtype(env, call.t2.dom[i], call.t1.dom[i])
          /\ is_subtype(env, call.t1.cod[1], call.t2.cod[1]))

\* C5: Unknown is a gradual subtype and a gradual supertype of every type.
C5_UnknownRelatesToAll ==
  (call.op = "is_gradual_subtype" /\ (call.t1 = Unknown \/ call.t2 = Unknown))
    => ret = TRUE

\* C5 witness: Unknown on the left of a function type.
C5_Witness ==
  /\ call.op = "is_gradual_subtype"
  /\ call.t1 = Unknown
  /\ call.t2.k = "gfun"
  /\ ret = TRUE

\* C6: two gradual function types of equal arity are related exactly when
\* their components are related by is_gradual_subtype, contravariantly on
\* the domain and covariantly on the codomain.
C6_GradualFunctionSubtyping ==
  (/\ call.op = "is_gradual_subtype"
   /\ call.t1.k = "gfun" /\ call.t2.k = "gfun"
   /\ Len(call.t1.dom) = Len(call.t2.dom))
    => (ret <=>
          /\ \A i \in 1..Len(call.t1.dom) :
               is_gradual_subtype(env, call.t2.dom[i], call.t1.dom[i])
          /\ is_gradual_subtype(env, call.t1.cod[1], call.t2.cod[1]))

(***************************************************************************)
(* Static lattice: lower_set, upper_set, meet, join                        *)
(***************************************************************************)
lower_set(environment, ti) ==
  {ti}
    \cup {t \in environment.Ns : is_subtype(environment, t, ti) /\ t # ti}
    \cup (IF is_subtype(environment, BottomType, ti) THEN {BottomType} ELSE {})

upper_set(environment, ti) ==
  {T \in environment.Ns : is_subtype(environment, ti, T)}

meet_minimal(environment, ti, tj) ==
  IF ti = tj THEN {ti}
  ELSE
    LET common == lower_set(environment, ti) \cap lower_set(environment, tj)
    IN {t \in common :
          \A t_prime \in common :
             t_prime # t => ~is_subtype(environment, t_prime, t)}

meet(environment, ti, tj) ==
  IF ti = tj THEN {ti}
  ELSE
    LET common == lower_set(environment, ti) \cap lower_set(environment, tj)
    IN {t \in common :
          \A t_prime \in common :
             t_prime # t => ~is_subtype(environment, t, t_prime)}

join_unfiltered(environment, ti, tj) ==
  upper_set(environment, ti) \cap upper_set(environment, tj)

join(environment, ti, tj) ==
  LET common == upper_set(environment, ti) \cap upper_set(environment, tj)
  IN {t \in common :
        \A t_prime \in common :
           t # t_prime => ~is_subtype(environment, t_prime, t)}

(***************************************************************************)
(* Environments of the lattice specification: four class names, every set  *)
(* of at most MaxLatEdges edges between different classes (listed in a     *)
(* fixed order), and a node list that holds all four classes or leaves D   *)
(* out.                                                                    *)
(***************************************************************************)
MaxLatEdges == 4

LatNames == {"A", "B", "C", "D"}

LatClasses == {ClassName(name) : name \in LatNames}

LatEdges ==
  {e \in {Edge(s, t) : s \in LatClasses, t \in LatClasses} : e.source # e.target}

RECURSIVE ListOf(_)
\* The elements of a finite set as a list.
ListOf(S) ==
  IF S = {} THEN <<>>
  ELSE LET e == CHOOSE x \in S : TRUE IN <<e>> \o ListOf(S \ {e})

LatEnvs ==
  {Environment(ns, ListOf(es), EmptySigma(LatNames)) :
     ns \in {LatClasses, LatClasses \ {ClassName("D")}},
     es \in {x \in SUBSET LatEdges : Cardinality(x) <= MaxLatEdges}}

LatArgs == LatClasses \cup {TopType, BottomType}

Call_lower_set ==
  /\ Idle
  /\ \E ti \in LatArgs :
       /\ call' = [op |-> "lower_set", t1 |-> ti]
       /\ ret' = lower_set(env, ti)
  /\ UNCHANGED env

Call_upper_set ==
  /\ Idle
  /\ \E ti \in LatArgs :
       /\ call' = [op |-> "upper_set", t1 |-> ti]
       /\ ret' = upper_set(env, ti)
  /\ UNCHANGED env

Call_meet ==
  /\ Idle
  /\ \E ti \in LatArgs, tj \in LatArgs :
       /\ call' = [op |-> "meet", t1 |-> ti, t2 |-> tj]
       /\ ret' = meet(env, ti, tj)
  /\ UNCHANGED env

Call_join ==
  /\ Idle
  /\ \E ti \in LatArgs, tj \in LatArgs :
       /\ call' = [op |-> "join", t1 |-> ti, t2 |-> tj]
       /\ ret' = join(env, ti, tj)
  /\ UNCHANGED env

InitLat == env \in LatEnvs /\ call = NoCall /\ ret = FALSE

NextLat == Call_lower_set \/ Call_upper_set \/ Call_meet \/ Call_join \/ Return

SpecLat == InitLat /\ [][NextLat]_vars

(***************************************************************************)
(* Reference order on types: Bottom below everything, Top above            *)
(* everything, class names ordered by the paths of declared edges.         *)
(***************************************************************************)
Below(environment, a, b) ==
  \/ a = b
  \/ b = TopType
  \/ a = BottomType
  \/ (a.k = "cls" /\ b.k = "cls" /\ HasPath(environment, a, b))

Acyclic(environment) ==
  \A i \in 1..Len(environment.Es) :
     ~HasPath(environment, environment.Es[i].target, environment.Es[i].source)

EdgeSet(environment) == {environment.Es[i] : i \in 1..Len(environment.Es)}

DiamondEdges ==
  {Edge(ClassName("B"), ClassName("A")), Edge(ClassName("C"), ClassName("A")),
   Edge(ClassName("D"), ClassName("B")), Edge(ClassName("D"), ClassName("C"))}

IsDiamond(environment) ==
  environment.Ns = LatClasses /\ EdgeSet(environment) = DiamondEdges

\* The nodes (and Bottom) that lie below both types.
CommonLower(environment, t1, t2) ==
  {t \in environment.Ns \cup {BottomType} :
     Below(environment, t, t1) /\ Below(environment, t, t2)}

\* The nodes that lie above both types.
CommonUpper(environment, t1, t2) ==
  {t \in environment.Ns :
     Below(environment, t1, t) /\ Below(environment, t2, t)}

\* C3: in an acyclic environment the meet of two of its class names is the
\* set of maximal common lower bounds: each element is below both
\* arguments, none is below a different common lower bound, and every
\* common lower bound is below some element; in the diamond the meet of B
\* and C is {D}.
C3_MeetIsMaximalCommonLower ==
  (/\ call.op = "meet"
   /\ call.t1 \in env.Ns /\ call.t2 \in env.Ns
   /\ Acyclic(env))
    => LET common == CommonLower(env, call.t1, call.t2) IN
       /\ ret \subseteq common
       /\ \A e \in ret : \A c \in common : c # e => ~Below(env, e, c)
       /\ \A c \in common : \E e \in ret : Below(env, c, e)
       /\ (/\ IsDiamond(env)
           /\ call.t1 = ClassName("B") /\ call.t2 = ClassName("C"))
            => ret = {ClassName("D")}

\* C3 witness: the meet of B and C in the diamond.
C3_Witness ==
  /\ call.op = "meet"
  /\ IsDiamond(env)
  /\ call.t1 = ClassName("B") /\ call.t2 = ClassName("C")
  /\ ret = {ClassName("D")}

\* The part of C4 that holds of every environment and every pair of types:
\* each element of the join is above both arguments and none is above a
\* different common upper bound; in the diamond the join of B and C is {A}.
JoinIsMinimalCommonUpper ==
  LET common == CommonUpper(env, call.t1, call.t2) IN
  /\ ret \subseteq common
  /\ \A e \in ret : \A c \in common : c # e => ~Below(env, c, e)
  /\ (/\ IsDiamond(env)
      /\ call.t1 = ClassName("B") /\ call.t2 = ClassName("C"))
       => ret = {ClassName("A")}

\* C4 as stated: the join is the set of minimal common upper bounds, and
\* whenever a <: b for class names a and b the join of a and b is {b}.
C4_JoinAsStated ==
  call.op = "join"
    => /\ JoinIsMinimalCommonUpper
       /\ (/\ call.t1 \in env.Ns /\ call.t2 \in env.Ns
           /\ Below(env, call.t1, call.t2))
            => ret = {call.t2}

\* C4 amended: the join is the set of minimal common upper bounds, and in
\* an acyclic environment, whenever a <: b for class names a and b of Ns,
\* the join of a and b is {b}.
C4_JoinAcyclic ==
  call.op = "join"
    => /\ JoinIsMinimalCommonUpper
       /\ (/\ call.t1 \in env.Ns /\ call.t2 \in env.Ns
           /\ Acyclic(env)
           /\ Below(env, call.t1, call.t2))
            => ret = {call.t2}

\* C4 witness: a join of two different classes along a path of two edges.
C4_Witness ==
  /\ call.op = "join"
  /\ call.t1 \in env.Ns /\ call.t2 \in env.Ns
  /\ Acyclic(env)
  /\ call.t1 # call.t2
  /\ Below(env, call.t1, call.t2)
  /\ ~is_direct_subtype(env, call.t1, call.t2)
  /\ ret = {call.t2}

(***************************************************************************)
(* Specification resolver.  A Specification is a set of Signatures.  None  *)
(* is a record of the shape of a type.                                     *)
(***************************************************************************)
None == [k |-> "none", n |-> "", dom |-> <<>>, cod |-> <<>>]

\* meet_unique that hands out an element of every non-empty meet set.
meet_unique_any(environment, ti, tj) ==
  LET meet_set == meet(environment, ti, tj)
  IN IF meet_set # {} THEN CHOOSE t \in meet_set : TRUE ELSE None

meet_unique(environment, ti, tj) ==
  LET meet_set == meet(environment, ti, tj)
  IN IF Cardinality(meet_set) = 1 THEN CHOOSE t \in meet_set : TRUE ELSE None

join_unique(environment, ti, tj) ==
  LET join_set == join(environment, ti, tj)
  IN IF Cardinality(join_set) = 1 THEN CHOOSE t \in join_set : TRUE ELSE None

\* The parents' specifications are read from sigma[target] of the edges
\* that leave class_name; equal specifications collapse in the set.
get_all_parent_specifications(environment, class_name) ==
  IF class_name.n \notin {node.n : node \in environment.Ns} THEN {}
  ELSE {environment.sigma[environment.Es[i].target.n] :
          i \in {j \in 1..Len(environment.Es) :
                   environment.Es[j].source = class_name}}

names(s) == {sig.var : sig \in s}

proj(x, s) ==
  IF x \in names(s) THEN (CHOOSE sig \in s : sig.var = x).type ELSE None

RECURSIVE proj_many(_, _)
\* ss is the list of specifications in the order the caller iterates them.
proj_many(var, ss) ==
  IF ss = <<>> THEN <<>>
  ELSE LET t == proj(var, Head(ss))
       IN (IF t # None THEN <<t>> ELSE <<>>) \o proj_many(var, Tail(ss))

undeclared(environment, class_name) ==
  IF class_name.n \notin DOMAIN environment.sigma THEN {}
  ELSE
    LET declared_names == names(environment.sigma[class_name.n])
        parent_specs == get_all_parent_specifications(environment, class_name)
        inherited_names == UNION {names(spec) : spec \in parent_specs}
    IN inherited_names \ declared_names

RECURSIVE fold_meet_unique(_, _, _)
\* for other_type in projected_types[1:]: m = meet_unique(current_meet,
\* other_type); None ends the loop.
fold_meet_unique(environment, current_meet, others) ==
  IF others = <<>> THEN current_meet
  ELSE LET mt == meet_unique(environment, current_meet, Head(others))
       IN IF mt = None THEN None
          ELSE fold_meet_unique(environment, mt, Tail(others))

\* order is the list in which the set parent_specs is iterated.
inherited(environment, class_name, order) ==
  LET undeclared_names == undeclared(environment, class_name)
      typed(var) ==
        LET projected_types == proj_many(var, order)
        IN IF projected_types = <<>> THEN None
           ELSE fold_meet_unique(environment, Head(projected_types),
                                 Tail(projected_types))
  IN {Signature(var, typed(var)) :
        var \in {v \in undeclared_names : typed(v) # None}}

get_specifications(environment, class_name, order) ==
  LET explicit_signatures ==
        IF class_name.n \in DOMAIN environment.sigma
        THEN environment.sigma[class_name.n] ELSE {}
      inherited_signatures == inherited(environment, class_name, order)
  IN explicit_signatures
       \cup {sig \in inherited_signatures : sig.var \notin names(explicit_signatures)}

\* The gradual resolver.  meet_unique_consistent is called on two class
\* names only, where its case Type(), Type() returns meet_unique; a
\* projected type that is not a class name drops the member.
RECURSIVE gradual_fold(_, _, _)
gradual_fold(environment, current_meet, others) ==
  IF others = <<>> THEN current_meet
  ELSE IF current_meet.k = "cls" /\ Head(others).k = "cls" THEN
    LET mt == meet_unique(environment, current_meet, Head(others))
    IN IF mt = None THEN None
       ELSE gradual_fold(environment, mt, Tail(others))
  ELSE None

gradual_inherited(environment, class_name, order) ==
  LET undeclared_names == undeclared(environment, class_name)
      typed(var) ==
        LET projected_types == proj_many(var, order)
        IN IF projected_types = <<>> THEN None
           ELSE gradual_fold(environment, Head(projected_types),
                             Tail(projected_types))
  IN {Signature(var, typed(var)) :
        var \in {v \in undeclared_names : typed(v) # None}}

gradual_get_specifications(environment, class_name, order) ==
  LET explicit_signatures ==
        IF class_name.n \in DOMAIN environment.sigma
        THEN environment.sigma[class_name.n] ELSE {}
      inherited_signatures == gradual_inherited(environment, class_name, order)
  IN explicit_signatures
       \cup {sig \in inherited_signatures : sig.var \notin names(explicit_signatures)}

\* Every order in which a finite set can be iterated.
Orders(S) ==
  {o \in [1..Cardinality(S) -> S] : \A i, j \in DOMAIN o : o[i] = o[j] => i = j}

(***************************************************************************)
(* Environments of the resolver specification.                             *)
(***************************************************************************)
A == ClassName("A")

B == ClassName("B")

C == ClassName("C")

D == ClassName("D")

E == ClassName("E")

F == ClassName("F")

G == ClassName("G")

\* The six-class hierarchy of the evidence tests.
SixClassEdges ==
  <<Edge(B, A), Edge(C, A), Edge(D, B), Edge(D, C),
    Edge(E, B), Edge(E, C), Edge(F, D), Edge(F, E)>>

SixClassSigma ==
  [name \in {"A", "B", "C", "D", "E", "F"} |->
     CASE name = "A" -> {}
       [] name = "B" -> {Signature("x", B)}
       [] name = "C" -> {Signature("x", C), Signature("z", Unknown)}
       [] name = "D" -> {Signature("x", Unknown), Signature("y", A)}
       [] name = "E" -> {Signature("x", E)}
       [] name = "F" -> {Signature("z", D)}]

SixClassEnv == Environment({A, B, C, D, E, F}, SixClassEdges, SixClassSigma)

\* A chain C <: B <: A in which only A declares a member.
ChainEnv ==
  Environment({A, B, C}, <<Edge(B, A), Edge(C, B)>>,
              [name \in {"A", "B", "C"} |->
                 IF name = "A" THEN {Signature("x", A)} ELSE {}])

\* The six-class hierarchy with a seventh class G below B, C and D.
SevenClasses == {A, B, C, D, E, F, G}

SevenClassEdges == SixClassEdges \o <<Edge(G, B), Edge(G, C), Edge(G, D)>>

MaxSigs == 3

ResTypes == {B, C, D, Unknown, FunctionType(<<A>>, A)}

\* Every sigma in which at most MaxSigs classes declare the member x.
Sigmas ==
  {sg \in [{cl.n : cl \in SevenClasses} ->
             {{}} \cup {{Signature("x", t)} : t \in ResTypes}] :
     Cardinality({name \in DOMAIN sg : sg[name] # {}}) <= MaxSigs}

ResEnvs ==
  {SixClassEnv, ChainEnv}
    \cup {Environment(SevenClasses, SevenClassEdges, sg) : sg \in Sigmas}

Call_get_specifications ==
  /\ Idle
  /\ \E class_name \in env.Ns :
       \E order \in Orders(get_all_parent_specifications(env, class_name)) :
          /\ call' = [op |-> "get_specifications", n |-> class_name,
                      order |-> order]
          /\ ret' = get_specifications(env, class_name, order)
  /\ UNCHANGED env

Call_gradual_get_specifications ==
  /\ Idle
  /\ \E class_name \in env.Ns :
       \E order \in Orders(get_all_parent_specifications(env, class_name)) :
          /\ call' = [op |-> "gradual_get_specifications", n |-> class_name,
                      order |-> order]
          /\ ret' = gradual_get_specifications(env, class_name, order)
  /\ UNCHANGED env

InitRes == env \in ResEnvs /\ call = NoCall /\ ret = FALSE

NextRes == Call_get_specifications \/ Call_gradual_get_specifications \/ Return

SpecRes == InitRes /\ [][NextRes]_vars

\* C7: in the six-class scenario the gradual resolver gives F the members
\* x:Unknown, y:A, z:D, gives D the members x:Unknown, y:A, z:Unknown and
\* gives E the members x:E, z:Unknown.
C7_SixClassResolution ==
  (call.op = "gradual_get_specifications" /\ env = SixClassEnv)
    => /\ call.n = F =>
            ret = {Signature("x", Unknown), Signature("y", A), Signature("z", D)}
       /\ call.n = D =>
            ret = {Signature("x", Unknown), Signature("y", A),
                   Signature("z", Unknown)}
       /\ call.n = E => ret = {Signature("x", E), Signature("z", Unknown)}

\* The direct parents of a class.
Parents(environment, class_name) ==
  {environment.Es[i].target :
     i \in {j \in 1..Len(environment.Es) : environment.Es[j].source = class_name}}

\* The member names of the resolved specification of a class.
ResolvedNames(environment, class_name) ==
  UNION {names(get_specifications(environment, class_name, order)) :
           order \in Orders(get_all_parent_specifications(environment, class_name))}

\* C8: the resolved specification of N contains every member name that N
\* does not declare and that the resolved specification of a direct parent
\* contains (stated for the names that a single direct parent resolves, so
\* that no two parents can disagree on the type).
C8_InheritsFromResolvedParents ==
  call.op = "get_specifications"
    => \A p \in Parents(env, call.n) :
         \A v \in ResolvedNames(env, p) \ names(env.sigma[call.n.n]) :
            (\A q \in Parents(env, call.n) \ {p} : v \notin ResolvedNames(env, q))
              => v \in names(ret)

\* The direct parents whose declared specification has the member var.
Providers(environment, class_name, var) ==
  {p \in Parents(environment, class_name) : var \in names(environment.sigma[p.n])}

\* The maximal elements of the intersection of the lower sets of types.
MeetOfAll(environment, types) ==
  LET common ==
        {t \in environment.Ns \cup {BottomType} \cup types :
           \A u \in types : t \in lower_set(environment, u)}
  IN {t \in common :
        \A t_prime \in common : t_prime # t => ~is_subtype(environment, t, t_prime)}

\* C9: for a member that N does not declare, one providing parent gives the
\* member that parent's type, several providing parents give it the unique
\* meet of their types when there is one and no signature otherwise; a
\* member that N declares keeps its declared type.
C9_InheritedTypeIsUniqueMeet ==
  call.op = "get_specifications"
    => LET own == env.sigma[call.n.n]
           member(var) == {sig \in ret : sig.var = var}
       IN /\ \A sig \in own : member(sig.var) = {sig}
          /\ \A var \in {"x", "y", "z"} \ names(own) :
               LET providers == Providers(env, call.n, var)
                   types == {proj(var, env.sigma[p.n]) : p \in providers}
                   meets == MeetOfAll(env, types)
               IN IF providers = {} THEN TRUE
                  ELSE IF Cardinality(providers) = 1
                    THEN member(var) = {Signature(var, t) : t \in types}
                  ELSE IF Cardinality(meets) = 1
                    THEN member(var) = {Signature(var, t) : t \in meets}
                  ELSE member(var) = {}

(***************************************************************************)
(* Evidence: intervals, lift and interior of two types.  An Optional pair  *)
(* is a sequence: <<>> is None, <<left, right>> is the pair.               *)
(***************************************************************************)
EvidenceInterval(lower_bound, upper_bound) ==
  [lower_bound |-> lower_bound, upper_bound |-> upper_bound]

RECURSIVE lift_gradual_type(_)
lift_gradual_type_no_unknown(t) == EvidenceInterval(t, t)

\* The domain of a function type is handed to lift_gradual_type as it is
\* stored: a tuple, which falls into the last case and is kept unchanged.
lift_gradual_type(t) ==
  IF t.k = "gfun" THEN
    LET codomain_interval == lift_gradual_type(t.cod[1])
    IN EvidenceInterval(GradualFunctionType(t.dom, codomain_interval.lower_bound),
                        GradualFunctionType(t.dom, codomain_interval.upper_bound))
  ELSE IF t.k = "unk" THEN EvidenceInterval(BottomType, TopType)
  ELSE EvidenceInterval(t, t)

\* isinstance(t, Type): every type but Unknown.
IsType(t) == t.k \in {"top", "bot", "cls", "fun", "gfun"}

interior_types_unchecked(environment, ti, tj) ==
  IF ti.k = "gfun" /\ tj.k = "gfun" THEN <<>>
  ELSE IF IsType(ti) /\ IsType(tj) THEN
    <<lift_gradual_type(ti), EvidenceInterval(tj, tj)>>
  ELSE IF IsType(ti) /\ tj.k = "unk" THEN
    <<lift_gradual_type(ti), EvidenceInterval(ti, TopType)>>
  ELSE IF ti.k = "unk" /\ IsType(tj) THEN
    <<EvidenceInterval(BottomType, tj), lift_gradual_type(tj)>>
  ELSE IF ti.k = "unk" /\ tj.k = "unk" THEN
    <<lift_gradual_type(Unknown), lift_gradual_type(Unknown)>>
  ELSE <<>>

\* On two function types the recursive calls receive the two domain tuples,
\* which match no case: domain_result is None and so is the result.
interior_types(environment, ti, tj) ==
  IF ti.k = "gfun" /\ tj.k = "gfun" THEN <<>>
  ELSE IF IsType(ti) /\ IsType(tj) THEN
    IF is_subtype(environment, ti, tj)
    THEN <<lift_gradual_type(ti), EvidenceInterval(tj, tj)>>
    ELSE <<>>
  ELSE IF IsType(ti) /\ tj.k = "unk" THEN
    <<lift_gradual_type(ti), EvidenceInterval(ti, TopType)>>
  ELSE IF ti.k = "unk" /\ IsType(tj) THEN
    <<EvidenceInterval(BottomType, tj), lift_gradual_type(tj)>>
  ELSE IF ti.k = "unk" /\ tj.k = "unk" THEN
    <<lift_gradual_type(Unknown), lift_gradual_type(Unknown)>>
  ELSE <<>>

EvidenceSignature(var, interval) == [var |-> var, interval |-> interval]

Evidence(specification_1, specification_2) ==
  [specification_1 |-> specification_1, specification_2 |-> specification_2]

interior_class_specification_both_sides(environment, spec_1, spec_2) ==
  LET all_vars == names(spec_1) \cup names(spec_2)
      lifted(var) ==
        IF var \in names(spec_1) THEN lift_gradual_type(proj(var, spec_1))
        ELSE lift_gradual_type(proj(var, spec_2))
      both == {EvidenceSignature(var, lifted(var)) : var \in all_vars}
  IN Evidence(both, both)

\* The loop over all_vars returns None at the first shared member whose
\* interior is None or whose two types are unrelated by is_subtype; any
\* such member ends the call with None in whatever order the set is
\* iterated.  The direction is decided by the static is_subtype.
interior_class_specification(environment, spec_1, spec_2) ==
  LET shared == names(spec_1) \cap names(spec_2)
      t1(var) == proj(var, spec_1)
      t2(var) == proj(var, spec_2)
      interiors(var) == interior_types(environment, t1(var), t2(var))
      fails(var) ==
        \/ interiors(var) = <<>>
        \/ /\ ~is_subtype(environment, t1(var), t2(var))
           /\ ~is_subtype(environment, t2(var), t1(var))
      left(var) ==
        IF var \notin shared THEN lift_gradual_type(t1(var))
        ELSE IF is_subtype(environment, t1(var), t2(var))
          THEN interiors(var)[1] ELSE interiors(var)[2]
      right(var) ==
        IF var \notin shared THEN lift_gradual_type(t2(var))
        ELSE IF is_subtype(environment, t1(var), t2(var))
          THEN interiors(var)[2] ELSE interiors(var)[1]
  IN IF \E var \in shared : fails(var) THEN None
     ELSE Evidence({EvidenceSignature(var, left(var)) : var \in names(spec_1)},
                   {EvidenceSignature(var, right(var)) : var \in names(spec_2)})

(***************************************************************************)
(* Environments of the evidence specification: the six-class scenario and  *)
(* the environments of the function-type specification.                    *)
(***************************************************************************)
EvEnvs == {SixClassEnv} \cup FunEnvs

EvArgs(environment) ==
  environment.Ns
    \cup {TopType, BottomType, Unknown,
          GradualFunctionType(<<A>>, B),
          GradualFunctionType(<<Unknown>>, Unknown),
          FunctionType(<<A>>, A)}

Call_lift_gradual_type ==
  /\ Idle
  /\ \E t \in EvArgs(env) :
       /\ call' = [op |-> "lift_gradual_type", t1 |-> t]
       /\ ret' = lift_gradual_type(t)
  /\ UNCHANGED env

Call_interior_types ==
  /\ Idle
  /\ \E ti \in EvArgs(env), tj \in EvArgs(env) :
       /\ call' = [op |-> "interior_types", t1 |-> ti, t2 |-> tj]
       /\ ret' = interior_types(env, ti, tj)
  /\ UNCHANGED env

\* The resolved specifications of the six classes.
SixClassSpecs ==
  UNION {{gradual_get_specifications(SixClassEnv, class_name, order) :
            order \in Orders(get_all_parent_specifications(SixClassEnv, class_name))} :
           class_name \in SixClassEnv.Ns}

\* Specifications with at most the members x and y.
SmallSpecs ==
  {sx \cup sy :
     sx \in {{}} \cup {{Signature("x", t)} :
                        t \in {Unknown, A, B, GradualFunctionType(<<A>>, B)}},
     sy \in {{}} \cup {{Signature("y", t)} : t \in {Unknown, A}}}

EvSpecs(environment) ==
  IF environment = SixClassEnv THEN SixClassSpecs ELSE SmallSpecs

Call_interior_class_specification ==
  /\ Idle
  /\ \E spec_1 \in EvSpecs(env), spec_2 \in EvSpecs(env) :
       /\ call' = [op |-> "interior_class_specification",
                   s1 |-> spec_1, s2 |-> spec_2]
       /\ ret' = interior_class_specification(env, spec_1, spec_2)
  /\ UNCHANGED env

InitEv == env \in EvEnvs /\ call = NoCall /\ ret = FALSE

NextEv ==
  \/ Call_lift_gradual_type
  \/ Call_interior_types
  \/ Call_interior_class_specification
  \/ Return

SpecEv == InitEv /\ [][NextEv]_vars

\* C10: on two concrete non-function types the interior is defined whenever
\* one is a subtype of the other, and when the first is the narrower one
\* the result is ([t1, t1], [t1, t2]).
C10_InteriorOfConcreteTypes ==
  (/\ call.op = "interior_types"
   /\ call.t1.k \in {"cls", "top", "bot"}
   /\ call.t2.k \in {"cls", "top", "bot"})
    => /\ (Below(env, call.t1, call.t2) \/ Below(env, call.t2, call.t1))
            => ret # <<>>
       /\ Below(env, call.t1, call.t2)
            => ret = <<EvidenceInterval(call.t1, call.t1),
                       EvidenceInterval(call.t1, call.t2)>>

LiftOf(t) ==
  IF t = Unknown THEN EvidenceInterval(BottomType, TopType)
  ELSE IF t.k = "gfun" THEN lift_gradual_type(t)
  ELSE EvidenceInterval(t, t)

\* C12: when interior_class_specification returns an Evidence, a member of
\* S1 alone is in the left specification only, a member of S2 alone is in
\* the right specification only, each with the lift of its type; when S2
\* has no members the result is (pointwise lift of S1, {}), and in the
\* six-class scenario the interior of spec(B) and spec(A) is
\* ({x:[B,B]}, {}).
C12_OneSidedMembersAreLifted ==
  call.op = "interior_class_specification"
    => /\ ret # None =>
            /\ \A var \in names(call.s1) \ names(call.s2) :
                 /\ {sig \in ret.specification_1 : sig.var = var}
                       = {EvidenceSignature(var, LiftOf(proj(var, call.s1)))}
                 /\ var \notin names(ret.specification_2)
            /\ \A var \in names(call.s2) \ names(call.s1) :
                 /\ {sig \in ret.specification_2 : sig.var = var}
                       = {EvidenceSignature(var, LiftOf(proj(var, call.s2)))}
                 /\ var \notin names(ret.specification_1)
       /\ call.s2 = {} =>
            /\ ret # None
            /\ ret = Evidence({EvidenceSignature(sig.var, LiftOf(sig.type)) :
                                 sig \in call.s1}, {})
       /\ (/\ env = SixClassEnv
           /\ call.s1 = {Signature("x", B)} /\ call.s2 = {})
            => ret = Evidence({EvidenceSignature("x", EvidenceInterval(B, B))}, {})

\* C12 witness: spec(B) against spec(A) in the six-class scenario.
C12_Witness ==
  /\ call.op = "interior_class_specification"
  /\ env = SixClassEnv
  /\ call.s1 = {Signature("x", B)} /\ call.s2 = {}
  /\ ret = Evidence({EvidenceSignature("x", EvidenceInterval(B, B))}, {})

\* C13: a shared member that is Unknown on one side and a class c on the
\* other makes interior_class_specification succeed (when no other shared
\* member fails) with [Bottom, c] left and [c, c] right for Unknown in S1,
\* [c, c] left and [c, Top] right for Unknown in S2, and a member that is
\* Unknown on both sides gets [Bottom, Top] on both sides.
C13_UnknownAgainstClass ==
  call.op = "interior_class_specification"
    => LET shared == names(call.s1) \cap names(call.s2)
           t1(var) == proj(var, call.s1)
           t2(var) == proj(var, call.s2)
           simple(var) ==
             \/ t1(var) = Unknown /\ t2(var).k \in {"cls", "unk"}
             \/ t2(var) = Unknown /\ t1(var).k \in {"cls", "unk"}
           expected_left(var) ==
             IF t1(var) = Unknown /\ t2(var) = Unknown
               THEN EvidenceInterval(BottomType, TopType)
             ELSE IF t1(var) = Unknown THEN EvidenceInterval(BottomType, t2(var))
             ELSE EvidenceInterval(t1(var), t1(var))
           expected_right(var) ==
             IF t1(var) = Unknown /\ t2(var) = Unknown
               THEN EvidenceInterval(BottomType, TopType)
             ELSE IF t1(var) = Unknown THEN EvidenceInterval(t2(var), t2(var))
             ELSE EvidenceInterval(t1(var), TopType)
       IN (shared # {} /\ \A var \in shared : simple(var))
            => /\ ret # None
               /\ \A var \in shared :
                    /\ EvidenceSignature(var, expected_left(var))
                         \in ret.specification_1
                    /\ EvidenceSignature(var, expected_right(var))
                         \in ret.specification_2

(***************************************************************************)
(* Evidence algebra: meet and transitivity.  An EvidenceSpecification is   *)
(* the set of the elements of its signatures collection; an element is an  *)
(* EvidenceSignature or, in the specifications that                        *)
(* meet_evidence_specifications builds, a bare EvidenceInterval.  The      *)
(* result of a call is Returned(value) or the exception it raised.         *)
(***************************************************************************)
AttributeError == [exc |-> "AttributeError", value |-> {}]

\* A call that returns value without raising.
Returned(value) == [exc |-> "", value |-> value]

\* The element has the attributes var and interval.
IsSignature(sig) == "var" \in DOMAIN sig

\* The meet of two intervals without the test lower <: upper.
meet_evidence_intervals_unfiltered(environment, interval_1, interval_2) ==
  {EvidenceInterval(pair[1], pair[2]) :
     pair \in meet(environment, interval_1.lower_bound, interval_2.lower_bound)
                \X meet(environment, interval_1.upper_bound, interval_2.upper_bound)}

meet_evidence_intervals(environment, interval_1, interval_2) ==
  LET lower_bounds ==
        meet(environment, interval_1.lower_bound, interval_2.lower_bound)
      upper_bounds ==
        meet(environment, interval_1.upper_bound, interval_2.upper_bound)
  IN {EvidenceInterval(pair[1], pair[2]) :
        pair \in {pr \in lower_bounds \X upper_bounds :
                    is_subtype(environment, pr[1], pr[2])}}

\* The two loops read signature_1.var and signature_2.var of every pair of
\* elements, so a bare interval in either operand raises AttributeError as
\* soon as the other operand is not empty.  For every pair of signatures of
\* one name and every interval of their meet the result holds one
\* specification: that interval itself (new_signature is the interval, no
\* EvidenceSignature is built around it) and every signature of another
\* name from both operands.
meet_evidence_specifications(environment, spec_1, spec_2) ==
  IF /\ spec_1 # {} /\ spec_2 # {}
     /\ \E sig \in spec_1 \cup spec_2 : ~IsSignature(sig)
  THEN AttributeError
  ELSE
    Returned(
      UNION {{{new_signature}
                \cup {sig \in spec_1 \cup spec_2 : sig.var # pair[1].var} :
                new_signature \in
                  meet_evidence_intervals(environment, pair[1].interval,
                                          pair[2].interval)} :
               pair \in {pr \in spec_1 \X spec_2 : pr[1].var = pr[2].var}})

is_subtype_interval(environment, interval_1, interval_2) ==
  /\ is_subtype(environment, interval_1.lower_bound, interval_2.lower_bound)
  /\ is_subtype(environment, interval_1.upper_bound, interval_2.upper_bound)

\* The two dictionaries are built from sig.var and sig.interval of every
\* element of both specifications before anything is compared.
is_subtype_evidence_spec(environment, evidence_1, evidence_2) ==
  IF \E sig \in evidence_1 \cup evidence_2 : ~IsSignature(sig)
  THEN AttributeError
  ELSE
    Returned(
      \A sig_2 \in evidence_2 :
         /\ sig_2.var \in {sig.var : sig \in evidence_1}
         /\ is_subtype_interval(
              environment,
              (CHOOSE sig \in evidence_1 : sig.var = sig_2.var).interval,
              sig_2.interval))

\* The last loop of meet_evidences: checked holds, for every pair (s_i,
\* s_j) of the two meets, the pair and is_subtype_evidence_spec(s_i, s_j).
meet_evidences_checked(checked) ==
  IF \E c \in checked : c[3] = AttributeError THEN AttributeError
  ELSE Returned({Evidence(c[1], c[2]) :
                   c \in {d \in checked : d[3] = Returned(TRUE)}})

\* meets[1] is s1_meet_s3 and meets[2] is s2_meet_s4.
meet_evidences_pairs(environment, meets) ==
  IF meets[1] = AttributeError \/ meets[2] = AttributeError THEN AttributeError
  ELSE meet_evidences_checked(
         {<<pr[1], pr[2], is_subtype_evidence_spec(environment, pr[1], pr[2])>> :
            pr \in meets[1].value \X meets[2].value})

meet_evidences(environment, evidence_1, evidence_2) ==
  LET specifications(evidence) ==
        <<evidence.specification_1, evidence.specification_2>>
  IN meet_evidences_pairs(
       environment,
       [side \in 1..2 |->
          meet_evidence_specifications(environment,
                                       specifications(evidence_1)[side],
                                       specifications(evidence_2)[side])])

\* The union of the results of the calls of one loop; an exception of any
\* call ends the loop.
Collected(results) ==
  IF AttributeError \in results THEN AttributeError
  ELSE Returned(UNION {result.value : result \in results})

\* A CompleteEvidence is the set of its evidences.
meet_complete_evidences(environment, complete_evidence_1, complete_evidence_2) ==
  Collected({meet_evidences(environment, pr[1], pr[2]) :
               pr \in complete_evidence_1 \X complete_evidence_2})

\* interiors holds, for every specification i of meet_group, the pair
\* (left_interior, right_interior).  Every specification of meet_group
\* holds a bare interval, so the two inner meets raise AttributeError
\* unless their other operand is empty, and then they are empty; a pair
\* (j, k) would raise as well, on left.interval of a bare interval.
transitivity_interiors(interiors) ==
  IF \E pr \in interiors : pr[1] = AttributeError \/ pr[2] = AttributeError
  THEN AttributeError
  ELSE IF \E pr \in interiors : pr[1].value # {} /\ pr[2].value # {}
  THEN AttributeError
  ELSE Returned({})

\* operands(i)[side] are the operands of left_interior (side 1) and of
\* right_interior (side 2).
transitivity_group(environment, par_spec_1, par_spec_2, meet_group) ==
  LET operands(i) == <<<<par_spec_1[1], i>>, <<i, par_spec_2[2]>>>>
  IN IF meet_group = AttributeError THEN AttributeError
     ELSE transitivity_interiors(
            {[side \in 1..2 |->
                meet_evidence_specifications(environment, operands(i)[side][1],
                                             operands(i)[side][2])] :
               i \in meet_group.value})

\* par_spec_1 and par_spec_2 are the pairs (specification_1,
\* specification_2) of two evidences.
transitivity_specifications(environment, par_spec_1, par_spec_2) ==
  transitivity_group(
    environment, par_spec_1, par_spec_2,
    meet_evidence_specifications(environment, par_spec_2[1], par_spec_1[2]))

\* The evidences built from the pairs of specifications of collected.
evidences_of(collected) ==
  IF collected = AttributeError THEN AttributeError
  ELSE Returned({Evidence(evidence[1], evidence[2]) :
                   evidence \in collected.value})

transitivity_complete_evidences(environment, complete_evidence_1, complete_evidence_2) ==
  evidences_of(
    Collected({transitivity_specifications(
                 environment,
                 <<pr[1].specification_1, pr[1].specification_2>>,
                 <<pr[2].specification_1, pr[2].specification_2>>) :
                 pr \in complete_evidence_1 \X complete_evidence_2}))

(***************************************************************************)
(* Environments and inputs of the evidence-algebra specification: the      *)
(* six-class scenario with the interiors of its resolved specifications    *)
(* and the evidences that the tests expect as interiors, and three small   *)
(* hierarchies with evidences over the member x.                           *)
(***************************************************************************)
AlgEnvs ==
  {SixClassEnv}
    \cup {Environment(SubClasses, es, EmptySigma(SubNames)) :
            es \in {<<>>, <<Edge(B, A)>>, <<Edge(B, A), Edge(C, B)>>}}

EvidenceSpecificationOf(x, y, z) ==
  {EvidenceSignature("x", x[i]) : i \in DOMAIN x}
    \cup {EvidenceSignature("y", y[i]) : i \in DOMAIN y}
    \cup {EvidenceSignature("z", z[i]) : i \in DOMAIN z}

\* The interiors that tests/gradual/test_evidence.py expects for D against
\* B, D against C and B against A.
ExpectedInterior_D_B ==
  Evidence(EvidenceSpecificationOf(<<EvidenceInterval(BottomType, B)>>,
                                   <<EvidenceInterval(A, A)>>,
                                   <<EvidenceInterval(BottomType, TopType)>>),
           EvidenceSpecificationOf(<<EvidenceInterval(B, B)>>, <<>>, <<>>))

ExpectedInterior_D_C ==
  Evidence(EvidenceSpecificationOf(<<EvidenceInterval(BottomType, C)>>,
                                   <<EvidenceInterval(A, A)>>,
                                   <<EvidenceInterval(BottomType, TopType)>>),
           EvidenceSpecificationOf(<<EvidenceInterval(C, C)>>, <<>>,
                                   <<EvidenceInterval(BottomType, TopType)>>))

ExpectedInterior_B_A ==
  Evidence(EvidenceSpecificationOf(<<EvidenceInterval(B, B)>>, <<>>, <<>>), {})

SixClassEvidences ==
  ({interior_class_specification(SixClassEnv, pr[1], pr[2]) :
      pr \in SixClassSpecs \X SixClassSpecs} \ {None})
    \cup {ExpectedInterior_D_B, ExpectedInterior_D_C, ExpectedInterior_B_A}

SmallEvidenceSpecifications ==
  {{}} \cup {{EvidenceSignature("x", interval)} :
               interval \in {EvidenceInterval(A, A), EvidenceInterval(B, B),
                             EvidenceInterval(B, A),
                             EvidenceInterval(BottomType, TopType)}}

SmallEvidences ==
  {Evidence(pr[1], pr[2]) :
     pr \in SmallEvidenceSpecifications \X SmallEvidenceSpecifications}

AlgEvidences(environment) ==
  IF environment = SixClassEnv THEN SixClassEvidences ELSE SmallEvidences

Call_meet_evidences ==
  /\ Idle
  /\ \E evidence_1 \in AlgEvidences(env), evidence_2 \in AlgEvidences(env) :
       /\ call' = [op |-> "meet_evidences", e1 |-> evidence_1, e2 |-> evidence_2]
       /\ ret' = meet_evidences(env, evidence_1, evidence_2)
  /\ UNCHANGED env

\* The complete evidences are the singletons.
Call_meet_complete_evidences ==
  /\ Idle
  /\ \E evidence_1 \in AlgEvidences(env), evidence_2 \in AlgEvidences(env) :
       /\ call' = [op |-> "meet_complete_evidences",
                   ce1 |-> {evidence_1}, ce2 |-> {evidence_2}]
       /\ ret' = meet_complete_evidences(env, {evidence_1}, {evidence_2})
  /\ UNCHANGED env

Call_transitivity_complete_evidences ==
  /\ Idle
  /\ \E evidence_1 \in AlgEvidences(env), evidence_2 \in AlgEvidences(env) :
       /\ call' = [op |-> "transitivity_complete_evidences",
                   ce1 |-> {evidence_1}, ce2 |-> {evidence_2}]
       /\ ret' = transitivity_complete_evidences(env, {evidence_1}, {evidence_2})
  /\ UNCHANGED env

InitAlg == env \in AlgEnvs /\ call = NoCall /\ ret = FALSE

NextAlg == Call_meet_evidences \/ Call_meet_complete_evidences \/ Return

SpecAlg == InitAlg /\ [][NextAlg]_vars

NextTrans == Call_transitivity_complete_evidences \/ Return

SpecTrans == InitAlg /\ [][NextTrans]_vars

\* The interval of the member var in an evidence specification that has
\* one signature for it.
IntervalOf(var, spec) == (CHOOSE sig \in spec : sig.var = var).interval

\* The meets of two evidence specifications as C14 states them: one
\* interval of the interval meet for every member of both, and the
\* signatures of the members of one operand unchanged.
SpecificationMeets(environment, spec_1, spec_2) ==
  LET names_1 == {sig.var : sig \in spec_1}
      names_2 == {sig.var : sig \in spec_2}
      shared == names_1 \cap names_2
      choices(var) ==
        meet_evidence_intervals(environment, IntervalOf(var, spec_1),
                                IntervalOf(var, spec_2))
      one_sided == {sig \in spec_1 \cup spec_2 : sig.var \notin shared}
  IN {{EvidenceSignature(var, f[var]) : var \in shared} \cup one_sided :
        f \in {g \in [shared -> UNION {choices(var) : var \in shared}] :
                 \A var \in shared : g[var] \in choices(var)}}

\* Evidence subtyping of specifications with one signature per member.
SubEvidenceSpec(environment, spec_1, spec_2) ==
  \A sig_2 \in spec_2 :
     /\ sig_2.var \in {sig.var : sig \in spec_1}
     /\ is_subtype_interval(environment, IntervalOf(sig_2.var, spec_1),
                            sig_2.interval)

\* C14: meet_evidences returns exactly the pairs (L, R) of a meet L of the
\* two left specifications and a meet R of the two right specifications
\* with L <: R, every specification with one signature per member; the
\* meet of interior(D, C) and interior(D, B) in the six-class scenario is
\* the two evidences that bound x as [Bottom, D] / [D, D] and as
\* [Bottom, E] / [E, E].  Stated for evidences whose left specifications
\* have members.
C14_MeetEvidences ==
  (/\ call.op = "meet_evidences"
   /\ call.e1.specification_1 # {} /\ call.e2.specification_1 # {})
    => /\ ret = Returned(
                  {Evidence(pr[1], pr[2]) :
                     pr \in {p \in SpecificationMeets(env, call.e1.specification_1,
                                                      call.e2.specification_1)
                                    \X SpecificationMeets(env, call.e1.specification_2,
                                                          call.e2.specification_2) :
                               SubEvidenceSpec(env, p[1], p[2])}})
       /\ (/\ env = SixClassEnv
           /\ call.e1 = ExpectedInterior_D_C /\ call.e2 = ExpectedInterior_D_B)
            => ret = Returned(
                 {Evidence(
                    EvidenceSpecificationOf(<<EvidenceInterval(BottomType, t)>>,
                                            <<EvidenceInterval(A, A)>>,
                                            <<EvidenceInterval(BottomType, TopType)>>),
                    EvidenceSpecificationOf(<<EvidenceInterval(t, t)>>, <<>>,
                                            <<EvidenceInterval(BottomType, TopType)>>)) :
                    t \in {D, E}})

\* Every interval is well formed and the left specification is an
\* evidence-subtype of the right one.
SelfConsistent(environment, evidence) ==
  /\ \A sig \in evidence.specification_1 \cup evidence.specification_2 :
       is_subtype(environment, sig.interval.lower_bound, sig.interval.upper_bound)
  /\ SubEvidenceSpec(environment, evidence.specification_1,
                     evidence.specification_2)

\* C15: the meet of a self-consistent complete evidence with itself is
\* that complete evidence, also when the right specifications are empty.
\* Stated for evidences whose left specification has members.
C15_MeetIdempotent ==
  (/\ call.op = "meet_complete_evidences"
   /\ call.ce1 = call.ce2
   /\ \A evidence \in call.ce1 : evidence.specification_1 # {}
   /\ \A evidence \in call.ce1 : SelfConsistent(env, evidence))
    => ret = Returned(call.ce1)

\* C16: in the six-class scenario the transitivity of {interior(D, B)} and
\* {interior(B, A)} is the single evidence with the left specification
\* {x:[Bottom, B], y:[A, A], z:[Bottom, Top]} and an empty right one; in
\* general, composing e1 with an e2 whose left side is e1's right side and
\* whose right side is empty gives e1's left side and an empty right side.
C16_Transitivity ==
  call.op = "transitivity_complete_evidences"
    => LET e1 == CHOOSE evidence \in call.ce1 : TRUE
           e2 == CHOOSE evidence \in call.ce2 : TRUE
       IN /\ (/\ env = SixClassEnv
              /\ e1 = ExpectedInterior_D_B /\ e2 = ExpectedInterior_B_A)
               => ret = Returned(
                    {Evidence(
                       EvidenceSpecificationOf(
                         <<EvidenceInterval(BottomType, B)>>,
                         <<EvidenceInterval(A, A)>>,
                         <<EvidenceInterval(BottomType, TopType)>>), {})})
          /\ (/\ SelfConsistent(env, e1) /\ SelfConsistent(env, e2)
              /\ e1.specification_2 # {}
              /\ e1.specification_2 = e2.specification_1
              /\ e2.specification_2 = {})
               => ret = Returned({Evidence(e1.specification_1, {})})

\* C17: the lift of Unknown is [Bottom, Top] and the lift of a class name,
\* of Top and of Bottom is [t, t].
C17_LiftOfNonFunctionTypes ==
  call.op = "lift_gradual_type"
    => /\ call.t1 = Unknown => ret = EvidenceInterval(BottomType, TopType)
       /\ call.t1.k \in {"cls", "top", "bot"}
            => ret = EvidenceInterval(call.t1, call.t1)

\* C17 witness: the lift of Unknown.
C17_Witness ==
  /\ call.op = "lift_gradual_type"
  /\ call.t1 = Unknown
  /\ ret = EvidenceInterval(BottomType, TopType)

RECURSIVE LiftedAndFlipped(_)
\* The lift of C18: the domain components are lifted and their bounds
\* flipped, the codomain is lifted.
LiftedAndFlipped(t) ==
  IF t.k = "gfun" THEN
    LET d(i) == LiftedAndFlipped(t.dom[i])
        c == LiftedAndFlipped(t.cod[1])
    IN EvidenceInterval(
         GradualFunctionType([i \in DOMAIN t.dom |-> d(i).upper_bound],
                             c.lower_bound),
         GradualFunctionType([i \in DOMAIN t.dom |-> d(i).lower_bound],
                             c.upper_bound))
  ELSE IF t = Unknown THEN EvidenceInterval(BottomType, TopType)
  ELSE EvidenceInterval(t, t)

\* C18: the lift of a function type is [(upper bounds of the lifted domain
\* -> lower bound of the lifted codomain), (lower bounds of the lifted
\* domain -> upper bound of the lifted codomain)]; the lift of
\* (Unknown -> Unknown) is [(Top -> Bottom), (Bottom -> Top)].
C18_LiftOfFunctionTypes ==
  (call.op = "lift_gradual_type" /\ call.t1.k = "gfun")
    => /\ ret = LiftedAndFlipped(call.t1)
       /\ call.t1 = GradualFunctionType(<<Unknown>>, Unknown)
            => ret = EvidenceInterval(GradualFunctionType(<<TopType>>, BottomType),
                                      GradualFunctionType(<<BottomType>>, TopType))

(***************************************************************************)
(* Graph validation (static/propositions.py, static/validations.py).       *)
(* A value of sigma is written in the repository as a Specification (the   *)
(* Environment declaration and the gradual tests) or as a list of          *)
(* signatures (the static tests); "tuple" stands for any other hashable    *)
(* iterable of signatures.  The validators iterate and hash these values,  *)
(* so the way they are written decides between a result and an exception.  *)
(***************************************************************************)
TypeError == [exc |-> "TypeError", value |-> {}]

KeyError == [exc |-> "KeyError", value |-> {}]

SigmaValues == {"Specification", "list", "tuple"}

\* Specification has no __iter__.
iterable(sigma_values) == sigma_values # "Specification"

\* A list has no __hash__.
hashable(sigma_values) == sigma_values # "list"

\* get_all_parent_specifications with the exceptions of its loop: the
\* first edge leaving class_name reads sigma[target] (KeyError when the
\* target has no entry) and adds the value to a set (TypeError for a list).
get_all_parent_specifications_raising(environment, class_name, sigma_values) ==
  LET parent_edges ==
        {j \in 1..Len(environment.Es) : environment.Es[j].source = class_name}
      missing(j) == environment.Es[j].target.n \notin DOMAIN environment.sigma
      first == CHOOSE j \in parent_edges : \A i \in parent_edges : j <= i
  IN IF class_name.n \notin {node.n : node \in environment.Ns} THEN Returned({})
     ELSE IF parent_edges = {} THEN Returned({})
     ELSE IF ~hashable(sigma_values)
       THEN (IF missing(first) THEN KeyError ELSE TypeError)
     ELSE IF \E j \in parent_edges : missing(j) THEN KeyError
     ELSE Returned({environment.sigma[environment.Es[j].target.n] :
                      j \in parent_edges})

RECURSIVE is_subtype_type(_, _, _)
\* On two class names is_subtype starts with a fresh visited set, where it
\* is the reachability that the model's is_subtype computes.
is_subtype_type(t1, t2, psi) ==
  IF t1.k = "cls" /\ t2.k = "cls" THEN is_subtype(psi, t1, t2)
  ELSE IF t1.k = "fun" /\ t2.k = "fun" THEN
    /\ Len(t1.dom) = Len(t2.dom)
    /\ \A i \in 1..Len(t1.dom) : is_subtype_type(t2.dom[i], t1.dom[i], psi)
    /\ is_subtype_type(t1.cod[1], t2.cod[1], psi)
  ELSE FALSE

\* s_dict = {sig.var: sig.type for sig in s.signatures}: one signature per
\* name of s; which one, when s overloads a name, depends on the order in
\* which the set is iterated.
Dicts(s) ==
  {d \in SUBSET s : names(d) = names(s) /\ Cardinality(d) = Cardinality(names(s))}

is_subtype_spec(s_dict, sp, psi) ==
  \A sig_p \in sp :
     /\ sig_p.var \in names(s_dict)
     /\ is_subtype_type(proj(sig_p.var, s_dict), sig_p.type, psi)

is_minimal_specification(class_name, s_dict, psi, sigma_values) ==
  LET parent_specs ==
        get_all_parent_specifications_raising(psi, class_name, sigma_values)
  IN IF parent_specs.exc # "" THEN parent_specs
     ELSE IF parent_specs.value = {} THEN Returned(TRUE)
     ELSE IF ~iterable(sigma_values) THEN TypeError
     ELSE Returned(\A sp \in parent_specs.value : is_subtype_spec(s_dict, sp, psi))

is_includes_node(class_name, s_dict, psi, sigma_values) ==
  IF class_name.n \notin DOMAIN psi.sigma THEN Returned(FALSE)
  ELSE IF ~iterable(sigma_values) THEN TypeError
  ELSE Returned(\A sig \in psi.sigma[class_name.n] :
                  /\ sig.var \in names(s_dict)
                  /\ sig.type = proj(sig.var, s_dict))

exists_all_signatures(psi, class_name, s, sigma_values) ==
  LET given_signatures == names(s)
      parent_specs_raw ==
        get_all_parent_specifications_raising(psi, class_name, sigma_values)
      own_signatures == names(psi.sigma[class_name.n])
      inherited_signatures ==
        UNION {names(parent) : parent \in parent_specs_raw.value}
  IN IF class_name.n \notin DOMAIN psi.sigma THEN KeyError
     ELSE IF ~iterable(sigma_values) THEN TypeError
     ELSE IF parent_specs_raw.exc # "" THEN parent_specs_raw
     ELSE Returned(given_signatures = own_signatures \cup inherited_signatures)

no_overloading(s) == Cardinality(s) = Cardinality(names(s))

\* The adjacency list of one node: the targets of its edges in the order
\* of Es.
build_adjacency_list(psi, node) ==
  LET leaves(edge) == edge.source = node
      out == SelectSeq(psi.Es, leaves)
  IN [i \in 1..Len(out) |-> out[i].target]

RECURSIVE dfs(_, _, _, _)
RECURSIVE dfs_neighbors(_, _, _, _, _)
\* dfs returns its result together with the sets visited and stack, which
\* the code mutates in place.
dfs(node, visited, stack, psi) ==
  LET d == dfs_neighbors(build_adjacency_list(psi, node), 1,
                         visited \cup {node}, stack \cup {node}, psi)
  IN IF d.r THEN [r |-> TRUE, visited |-> d.visited, stack |-> d.stack \ {node}]
     ELSE d

\* The loop over adj[node] from its i-th neighbor on.
dfs_neighbors(neighbors, i, visited, stack, psi) ==
  IF i > Len(neighbors) THEN [r |-> TRUE, visited |-> visited, stack |-> stack]
  ELSE IF neighbors[i] \notin visited THEN
    LET d == dfs(neighbors[i], visited, stack, psi)
    IN IF ~d.r THEN d
       ELSE dfs_neighbors(neighbors, i + 1, d.visited, d.stack, psi)
  ELSE IF neighbors[i] \in stack
    THEN [r |-> FALSE, visited |-> visited, stack |-> stack]
  ELSE dfs_neighbors(neighbors, i + 1, visited, stack, psi)

RECURSIVE acyclic_nodes(_, _, _, _, _)
\* The loop of acyclic over psi.Ns from its i-th node on; order is the list
\* psi.Ns.
acyclic_nodes(psi, order, i, visited, stack) ==
  IF i > Len(order) THEN TRUE
  ELSE IF order[i] \in visited
    THEN acyclic_nodes(psi, order, i + 1, visited, stack)
  ELSE LET d == dfs(order[i], visited, stack, psi)
       IN IF ~d.r THEN FALSE
          ELSE acyclic_nodes(psi, order, i + 1, d.visited, d.stack)

acyclic(psi, order) == acyclic_nodes(psi, order, 1, {}, {})

RECURSIVE is_valid_type(_, _)
\* A type that is neither a function type nor a class name falls out of the
\* match: the function returns None, which all([...]) and `and` read as
\* false.
is_valid_type(psi, type) ==
  IF type.k = "fun" THEN
    /\ \A i \in 1..Len(type.dom) : is_valid_type(psi, type.dom[i])
    /\ is_valid_type(psi, type.cod[1])
  ELSE IF type.k = "cls" THEN type.n \in {node.n : node \in psi.Ns}
  ELSE FALSE

\* signature is the set of signatures the argument iterates to.
is_valid_signature(psi, signature) ==
  \A sig \in signature : is_valid_type(psi, sig.type)

is_valid_node(psi, node, s_dict, sigma_values) ==
  LET declared == node.n \in DOMAIN psi.sigma
      spec == IF declared THEN psi.sigma[node.n] ELSE {}
      minimal == is_minimal_specification(node, s_dict, psi, sigma_values)
      includes == is_includes_node(node, s_dict, psi, sigma_values)
      exists_all == exists_all_signatures(psi, node, spec, sigma_values)
  IN IF declared /\ ~iterable(sigma_values) THEN TypeError
     ELSE IF minimal.exc # "" THEN minimal
     ELSE IF ~minimal.value THEN Returned(FALSE)
     ELSE IF includes.exc # "" THEN includes
     ELSE IF ~includes.value THEN Returned(FALSE)
     ELSE IF exists_all.exc # "" THEN exists_all
     ELSE IF ~exists_all.value THEN Returned(FALSE)
     ELSE Returned(no_overloading(spec))

is_valid_edge(psi, class_name_1, class_name_2) ==
  \E i \in 1..Len(psi.Es) :
     psi.Es[i].source = class_name_1 /\ psi.Es[i].target = class_name_2

\* is_valid_signature iterates sigma[name] of the first node that has an
\* entry.
is_valid_fun(psi, sigma_values) ==
  LET declared == {class_name \in psi.Ns : class_name.n \in DOMAIN psi.sigma}
  IN IF declared = {} THEN Returned(TRUE)
     ELSE IF ~iterable(sigma_values) THEN TypeError
     ELSE Returned(\A class_name \in declared :
                     is_valid_signature(psi, psi.sigma[class_name.n]))

RECURSIVE is_valid_graph_nodes(_, _, _, _, _)
\* The loop of is_valid_graph over psi.Ns from its i-th node on.
is_valid_graph_nodes(psi, order, i, s_dicts, sigma_values) ==
  IF i > Len(order) THEN Returned(TRUE)
  ELSE
    LET class_name == order[i]
        spec == psi.sigma[class_name.n]
        minimal == is_minimal_specification(class_name, s_dicts[class_name.n],
                                            psi, sigma_values)
        exists_all == exists_all_signatures(psi, class_name, spec, sigma_values)
    IN IF class_name.n \notin DOMAIN psi.sigma THEN Returned(FALSE)
       ELSE IF ~iterable(sigma_values) THEN TypeError
       ELSE IF minimal.exc # "" THEN minimal
       ELSE IF ~minimal.value THEN Returned(FALSE)
       ELSE IF exists_all.exc # "" THEN exists_all
       ELSE IF ~exists_all.value THEN Returned(FALSE)
       ELSE IF ~is_valid_signature(psi, spec) THEN Returned(FALSE)
       ELSE is_valid_graph_nodes(psi, order, i + 1, s_dicts, sigma_values)

is_valid_graph(psi, order, s_dicts, sigma_values) ==
  LET fun == is_valid_fun(psi, sigma_values)
      nodes == is_valid_graph_nodes(psi, order, 1, s_dicts, sigma_values)
  IN IF fun.exc # "" THEN fun
     ELSE IF ~fun.value THEN Returned(FALSE)
     ELSE IF nodes.exc # "" THEN nodes
     ELSE IF ~nodes.value THEN Returned(FALSE)
     ELSE IF \E i \in 1..Len(psi.Es) :
               ~is_valid_edge(psi, psi.Es[i].source, psi.Es[i].target)
       THEN Returned(FALSE)
     ELSE Returned(acyclic(psi, order))

(***************************************************************************)
(* Environments of the validation specification: two classes with every    *)
(* small sigma, partial ones included, and three classes that declare      *)
(* nothing.                                                                *)
(***************************************************************************)
MaxValEdges == 3

ValNames == {"A", "B", "C"}

ValTypes == {A, B, C, FunctionType(<<B>>, A), FunctionType(<<A>>, B)}

ValSpecs ==
  {{}} \cup {{Signature("x", t)} : t \in ValTypes}
       \cup {{Signature("x", A), Signature("x", B)}}

EdgesOver(classes) == {Edge(s, t) : s \in classes, t \in classes}

ValEdgeLists(classes) ==
  {es \in UNION {EdgeLists(EdgesOver(classes), len) : len \in 0..MaxValEdges} :
     NoRepeat(es)}

TwoClassEnvs ==
  {Environment({A, B}, es, sg) :
     es \in ValEdgeLists({A, B}),
     sg \in UNION {[declared -> ValSpecs] : declared \in SUBSET {"A", "B"}}}

ThreeClassEnvs ==
  {Environment({A, B, C}, es, EmptySigma(ValNames)) :
     es \in ValEdgeLists({A, B, C})}

MaxOutEdges == 2

\* Two nodes A and B with at least one edge that starts or ends at C, which
\* is not a node; any of the three names may have an (empty) entry in sigma.
OutsideEnvs ==
  {Environment({A, B}, es, sg) :
     es \in {l \in UNION {EdgeLists(EdgesOver({A, B, C}), len) :
                            len \in 1..MaxOutEdges} :
               /\ NoRepeat(l)
               /\ \E i \in 1..Len(l) : l[i].source = C \/ l[i].target = C},
     sg \in UNION {[declared -> {{}}] : declared \in SUBSET ValNames}}

ValEnvs == TwoClassEnvs \cup ThreeClassEnvs \cup OutsideEnvs

\* The specification Specification(sigma.get(name, [])) of a node.
DeclaredSpec(psi, name) ==
  IF name \in DOMAIN psi.sigma THEN psi.sigma[name] ELSE {}

\* One s_dict for the specification of every class.
SDicts(psi) ==
  {s_dicts \in [ValNames -> UNION {Dicts(DeclaredSpec(psi, name)) : name \in ValNames}] :
     \A name \in ValNames : s_dicts[name] \in Dicts(DeclaredSpec(psi, name))}

Call_acyclic ==
  /\ Idle
  /\ \E order \in Orders(env.Ns) :
       /\ call' = [op |-> "acyclic", order |-> order]
       /\ ret' = Returned(acyclic(env, order))
  /\ UNCHANGED env

Call_is_valid_node ==
  /\ Idle
  /\ \E node \in env.Ns, sigma_values \in SigmaValues :
       \E s_dict \in Dicts(DeclaredSpec(env, node.n)) :
          /\ call' = [op |-> "is_valid_node", node |-> node, s_dict |-> s_dict,
                      sigma_values |-> sigma_values]
          /\ ret' = is_valid_node(env, node, s_dict, sigma_values)
  /\ UNCHANGED env

Call_is_valid_graph ==
  /\ Idle
  /\ \E order \in Orders(env.Ns), sigma_values \in SigmaValues :
       \E s_dicts \in SDicts(env) :
          /\ call' = [op |-> "is_valid_graph", order |-> order,
                      s_dicts |-> s_dicts, sigma_values |-> sigma_values]
          /\ ret' = is_valid_graph(env, order, s_dicts, sigma_values)
  /\ UNCHANGED env

InitVal == env \in ValEnvs /\ call = NoCall /\ ret = FALSE

NextVal == Call_acyclic \/ Call_is_valid_node \/ Call_is_valid_graph \/ Return

SpecVal == InitVal /\ [][NextVal]_vars

\* Every edge of Es has its source and its target in Ns.
EndpointsInNs(environment) ==
  \A i \in 1..Len(environment.Es) :
     /\ environment.Es[i].source \in environment.Ns
     /\ environment.Es[i].target \in environment.Ns

\* C19: when every edge has its endpoints in Ns, acyclic is false exactly
\* when Es holds a directed cycle (a self-loop included), and
\* is_valid_graph returns false for every environment with such a cycle;
\* for the edges A->B, B->A both return false.
C19_CycleSafety ==
  EndpointsInNs(env)
    => /\ call.op = "acyclic" => (ret = Returned(FALSE) <=> ~Acyclic(env))
       /\ (call.op = "is_valid_graph" /\ ~Acyclic(env)) => ret = Returned(FALSE)
       /\ (env.Es = <<Edge(A, B), Edge(B, A)>>
             /\ call.op \in {"acyclic", "is_valid_graph"})
            => ret = Returned(FALSE)

\* The resolved specification of C20, for a class whose parents' declared
\* specifications are all equal (one iteration order).
Resolved(environment, class_name) ==
  get_specifications(environment, class_name,
    CHOOSE order \in Orders(get_all_parent_specifications(environment, class_name)) :
      TRUE)

\* The four conditions of C20 on the resolved specifications.
ValidOnResolved(environment, class_name) ==
  LET resolved == Resolved(environment, class_name)
      parent_classes == {environment.Es[i].target :
                           i \in {j \in 1..Len(environment.Es) :
                                    environment.Es[j].source = class_name}}
      sub_spec(s, sp) ==
        \A sig_p \in sp :
           \E sig \in s : /\ sig.var = sig_p.var
                          /\ is_subtype_type(sig.type, sig_p.type, environment)
  IN /\ \A parent \in parent_classes :
          sub_spec(resolved, Resolved(environment, parent))
     /\ environment.sigma[class_name.n] \subseteq resolved
     /\ names(resolved)
          = names(environment.sigma[class_name.n])
              \cup UNION {names(Resolved(environment, parent)) :
                            parent \in parent_classes}
     /\ no_overloading(resolved)

\* The environments on which C20's resolved specification is determined:
\* acyclic, every class declared, and no class with two different parent
\* specifications.
ResolutionDetermined(environment) ==
  /\ EndpointsInNs(environment)
  /\ Acyclic(environment)
  /\ \A class_name \in environment.Ns : class_name.n \in DOMAIN environment.sigma
  /\ \A class_name \in environment.Ns :
       Cardinality(get_all_parent_specifications(environment, class_name)) <= 1

\* C20: is_valid_node is true exactly when the resolved specification
\* get_specifications(env, N) is a subtype-spec of every direct parent's
\* resolved specification, contains every signature of sigma[N], has the
\* member names own + inherited and no duplicate name; B <: A with
\* sigma[A] = {x:A} and sigma[B] = {} makes B a valid node.
C20_ValidNodeOnResolvedSpecification ==
  call.op = "is_valid_node"
    => /\ ResolutionDetermined(env)
            => ret = Returned(ValidOnResolved(env, call.node))
       /\ (/\ env.Ns = {A, B}
           /\ env.Es = <<Edge(B, A)>>
           /\ DOMAIN env.sigma = {"A", "B"}
           /\ env.sigma["A"] = {Signature("x", A)}
           /\ env.sigma["B"] = {}
           /\ call.node = B)
            => ret = Returned(TRUE)

\* C21: is_valid_graph returns false, and does not raise, whenever some edge
\* of Es has a source or a target that is not a node of Ns.
C21_EdgesOutsideNsAreInvalid ==
  (call.op = "is_valid_graph" /\ ~EndpointsInNs(env)) => ret = Returned(FALSE)

(***************************************************************************)
(* Reflexivity and the extremes.  is_subtype is called on every pair of    *)
(* class names, TopType, BottomType and function types (one of them with   *)
(* a function type as a component), is_gradual_subtype on every gradual    *)
(* type against itself, over the environments of SpecFun (self-loops and   *)
(* two-edge cycles included).                                              *)
(***************************************************************************)
ReflTypes ==
  StaticArgs \cup FunTypes
    \cup {FunctionType(<<FunctionType(<<ClassName("A")>>, ClassName("B"))>>, TopType)}

Call_is_subtype_any ==
  /\ Idle
  /\ \E t1 \in ReflTypes, t2 \in ReflTypes :
       /\ call' = [op |-> "is_subtype", t1 |-> t1, t2 |-> t2]
       /\ ret' = is_subtype(env, t1, t2)
  /\ UNCHANGED env

Call_is_gradual_subtype_self ==
  /\ Idle
  /\ \E t \in GradualArgs :
       /\ call' = [op |-> "is_gradual_subtype", t1 |-> t, t2 |-> t]
       /\ ret' = is_gradual_subtype(env, t, t)
  /\ UNCHANGED env

NextRefl == Call_is_subtype_any \/ Call_is_gradual_subtype_self \/ Return

SpecRefl == InitFun /\ [][NextRefl]_vars

HasCycle(environment) == \E n \in environment.Ns : HasPath(environment, n, n)

\* C22: in every environment, with or without cycles, fresh calls give
\* is_subtype(t, t), is_subtype(BottomType, t) and is_subtype(t, TopType) for
\* every class name, TopType, BottomType and function type t, and
\* is_gradual_subtype(t, t) for every gradual type t.
C22_ReflexiveWithExtremes ==
  /\ (call.op = "is_subtype"
        /\ (call.t1 = call.t2 \/ call.t1 = BottomType \/ call.t2 = TopType))
       => ret = TRUE
  /\ (call.op = "is_gradual_subtype" /\ call.t1 = call.t2) => ret = TRUE

C22_Witness ==
  /\ call.op = "is_subtype"
  /\ call.t1.k = "fun"
  /\ call.t1 = call.t2
  /\ HasCycle(env)
  /\ ret = TRUE

(***************************************************************************)
(* meet_unique and join_unique, called on the class names of the           *)
(* environment, TopType and BottomType, over the environments of the       *)
(* lattice specification and the six-class hierarchy.                      *)
(***************************************************************************)
UniqEnvs == LatEnvs \cup {SixClassEnv}

Call_meet_unique ==
  /\ Idle
  /\ \E ti \in env.Ns \cup {TopType, BottomType}, tj \in env.Ns \cup {TopType, BottomType} :
       /\ call' = [op |-> "meet_unique", t1 |-> ti, t2 |-> tj]
       /\ ret' = meet_unique(env, ti, tj)
  /\ UNCHANGED env

Call_join_unique ==
  /\ Idle
  /\ \E ti \in env.Ns \cup {TopType, BottomType}, tj \in env.Ns \cup {TopType, BottomType} :
       /\ call' = [op |-> "join_unique", t1 |-> ti, t2 |-> tj]
       /\ ret' = join_unique(env, ti, tj)
  /\ UNCHANGED env

InitUniq == env \in UniqEnvs /\ call = NoCall /\ ret = None

ReturnUniq ==
  /\ call # NoCall
  /\ call' = NoCall
  /\ ret' = None
  /\ UNCHANGED env

NextUniq == Call_meet_unique \/ Call_join_unique \/ ReturnUniq

SpecUniq == InitUniq /\ [][NextUniq]_vars

\* The result is the one element of a one-element set and None otherwise.
UniqueOf(set, result) ==
  /\ (\E e \in set : set = {e}) => set = {result}
  /\ (set = {} \/ \E e1 \in set, e2 \in set : e1 # e2) => result = None

\* C23: meet_unique returns e exactly when meet = {e} and None when the meet
\* set is empty or has two or more elements; join_unique does the same with
\* join; in the six-class hierarchy meet(B, C) = {D, E} and meet_unique(B, C)
\* is None.
C23_UniqueOrNone ==
  /\ call.op = "meet_unique" => UniqueOf(meet(env, call.t1, call.t2), ret)
  /\ call.op = "join_unique" => UniqueOf(join(env, call.t1, call.t2), ret)
  /\ (call.op = "meet_unique" /\ env = SixClassEnv /\ call.t1 = B /\ call.t2 = C)
       => (meet(env, B, C) = {D, E} /\ ret = None)

C23_Witness ==
  /\ call.op = "meet_unique"
  /\ env = SixClassEnv
  /\ call.t1 = B
  /\ call.t2 = C
  /\ Cardinality(meet(env, B, C)) = 2
  /\ ret = None

(***************************************************************************)
(* Specification subtyping (static/subtyping.py).  s_dict is the           *)
(* dictionary {sig.var: sig.type for sig in s.signatures}: when s holds    *)
(* two signatures for one name the dictionary keeps the one the set        *)
(* iteration visits last, which is any of them (Dicts).                    *)
(***************************************************************************)
\* is_subtype_fun is is_gradual_subtype when gradual and is_subtype otherwise.
is_subtype_spec_core(environment, s_dict, sp, gradual) ==
  \A sig_p \in sp :
     /\ sig_p.var \in names(s_dict)
     /\ IF gradual
        THEN is_gradual_subtype(environment, proj(sig_p.var, s_dict), sig_p.type)
        ELSE is_subtype(environment, proj(sig_p.var, s_dict), sig_p.type)

\* A specification subtyping that asks s and sp to have the same members.
static_is_subtype_spec_no_width(environment, s_dict, sp) ==
  /\ names(s_dict) = names(sp)
  /\ is_subtype_spec_core(environment, s_dict, sp, FALSE)

static_is_subtype_spec(environment, s_dict, sp) ==
  is_subtype_spec_core(environment, s_dict, sp, FALSE)

gradual_is_subtype_spec(environment, s_dict, sp) ==
  is_subtype_spec_core(environment, s_dict, sp, TRUE)

MaxSubSpecEdges == 2

MaxSubSpecSigs == 2

SubSpecEnvs ==
  {Environment(SubClasses, es, EmptySigma(SubNames)) :
     es \in {l \in EdgeLists({e \in SubEdges : e.source # e.target}, MaxSubSpecEdges) :
               NoRepeat(l)}}

SubSpecTypes == {A, B, FunctionType(<<A>>, B), Unknown}

SubSpecSignatures == {Signature(var, type) : var \in {"x", "y"}, type \in SubSpecTypes}

\* Every set of at most MaxSubSpecSigs signatures, two signatures for one
\* name included: the constructor of Specification accepts them.
SubSpecs == {s \in SUBSET SubSpecSignatures : Cardinality(s) <= MaxSubSpecSigs}

Call_is_subtype_spec ==
  /\ Idle
  /\ \E s \in SubSpecs, sp \in SubSpecs :
       \E s_dict \in Dicts(s) :
          /\ call' = [op |-> "is_subtype_spec", s |-> s, sp |-> sp]
          /\ ret' = static_is_subtype_spec(env, s_dict, sp)
  /\ UNCHANGED env

Call_gradual_is_subtype_spec ==
  /\ Idle
  /\ \E s \in SubSpecs, sp \in SubSpecs :
       \E s_dict \in Dicts(s) :
          /\ call' = [op |-> "gradual_is_subtype_spec", s |-> s, sp |-> sp]
          /\ ret' = gradual_is_subtype_spec(env, s_dict, sp)
  /\ UNCHANGED env

InitSubSpec == env \in SubSpecEnvs /\ call = NoCall /\ ret = FALSE

NextSubSpec == Call_is_subtype_spec \/ Call_gradual_is_subtype_spec \/ Return

SpecSubSpec == InitSubSpec /\ [][NextSubSpec]_vars

\* For every signature (x: T) of sp, s has a signature for x whose type is a
\* subtype of T.
EveryMemberCovered(environment, s, sp) ==
  \A sig_p \in sp :
     \E sig \in s : sig.var = sig_p.var /\ is_subtype(environment, sig.type, sig_p.type)

\* The members of s that sp mentions.
Mentioned(s, sp) == {sig \in s : sig.var \in names(sp)}

\* C24: is_subtype_spec(env, s, sp) is true if and only if for every
\* signature (x: T) of sp, s has a signature for x whose type is a subtype of
\* T; members of s that sp does not mention never make it false, and every
\* specification is a subtype-spec of the empty specification.
C24_SpecSubtyping ==
  call.op = "is_subtype_spec" =>
    /\ ret <=> EveryMemberCovered(env, call.s, call.sp)
    /\ EveryMemberCovered(env, Mentioned(call.s, call.sp), call.sp) => ret
    /\ call.sp = {} => ret

\* C24 for specifications s in which no two signatures share a name.
C24_SpecSubtypingNoOverloading ==
  (call.op = "is_subtype_spec" /\ no_overloading(call.s)) =>
    /\ ret <=> EveryMemberCovered(env, call.s, call.sp)
    /\ EveryMemberCovered(env, Mentioned(call.s, call.sp), call.sp) => ret
    /\ call.sp = {} => ret

C24_Witness ==
  /\ call.op = "is_subtype_spec"
  /\ no_overloading(call.s)
  /\ call.sp # {}
  /\ names(call.s) \ names(call.sp) # {}
  /\ \E sig \in call.s, sig_p \in call.sp : sig.var = sig_p.var /\ sig.type # sig_p.type
  /\ ret

\* C25: for every class name of Ns, TopType and BottomType t, lower_set(env, t)
\* contains t and every node n of Ns with n <: t, and upper_set(env, t)
\* contains t and every node n of Ns with t <: n.
C25_LowerAndUpperSetsAreReflexive ==
  /\ (call.op = "lower_set" /\ call.t1 \in env.Ns \cup {TopType, BottomType}) =>
       /\ call.t1 \in ret
       /\ \A n \in env.Ns : is_subtype(env, n, call.t1) => n \in ret
  /\ (call.op = "upper_set" /\ call.t1 \in env.Ns \cup {TopType, BottomType}) =>
       /\ call.t1 \in ret
       /\ \A n \in env.Ns : is_subtype(env, call.t1, n) => n \in ret

(***************************************************************************)
(* The recursion of is_subtype and is_gradual_subtype, one activation at   *)
(* a time.  A run keeps the stack of activations (innermost first), the    *)
(* visited sets that exist (the caller's set, and the fresh set that       *)
(* is_gradual_subtype's class case makes by calling is_subtype without     *)
(* visited) and the value the last finished activation returned.           *)
(* Frames: "call" and "gcall" are activations of is_subtype and            *)
(* is_gradual_subtype at their first line; "edges" is the loop over Es     *)
(* before edge i and "edges_wait" the same loop waiting for the recursive  *)
(* call on edge i; "dom" and "dom_wait" are the all(...) over the domain   *)
(* positions; "cod_wait" waits for the codomain check, acc holding         *)
(* domain_check.                                                           *)
(***************************************************************************)
Frame(kind, t1, t2, i, acc, vs) ==
  [kind |-> kind, t1 |-> t1, t2 |-> t2, i |-> i, acc |-> acc, vs |-> vs]

\* A guard that returns True for a pair found in visited.
visited_guard_true(run, otherwise) ==
  LET top == Head(run.stack) IN
  IF <<top.t1, top.t2>> \in run.visited[top.vs]
  THEN [run EXCEPT !.stack = Tail(run.stack), !.result = <<TRUE>>]
  ELSE otherwise

\* if (t1, t2) in visited: return False
visited_guard(run, otherwise) ==
  LET top == Head(run.stack) IN
  IF <<top.t1, top.t2>> \in run.visited[top.vs]
  THEN [run EXCEPT !.stack = Tail(run.stack), !.result = <<FALSE>>]
  ELSE otherwise

step(environment, run) ==
  LET top == Head(run.stack)
      rest == Tail(run.stack)
      t1 == top.t1
      t2 == top.t2
      pair == <<t1, t2>>
      return(b) == [run EXCEPT !.stack = rest, !.result = <<b>>]
      add == [run EXCEPT !.visited[top.vs] = @ \cup {pair}, !.result = <<>>]
      add_return(b) == [add EXCEPT !.stack = rest, !.result = <<b>>]
      become(kind, i, acc) == <<Frame(kind, t1, t2, i, acc, top.vs)>> \o rest
      calling(a, b, kind, i, acc) ==
        <<Frame("call", a, b, 1, FALSE, top.vs)>> \o become(kind, i, acc)
  IN
  CASE top.kind = "call" ->
         visited_guard(run,
         IF t1 = t2 \/ t2.k = "top" \/ t1.k = "bot" THEN add_return(TRUE)
         ELSE IF t1.k = "fun" /\ t2.k = "fun" THEN
           IF Len(t1.dom) # Len(t2.dom) THEN add_return(FALSE)
           ELSE [add EXCEPT !.stack = become("dom", 1, FALSE)]
         ELSE IF t1.k = "cls" /\ t2.k = "cls" THEN
           IF is_direct_subtype(environment, t1, t2) THEN add_return(TRUE)
           ELSE [add EXCEPT !.stack = become("edges", 1, FALSE)]
         ELSE add_return(FALSE))
    [] top.kind = "gcall" ->
         visited_guard(run,
         IF t1 = t2 \/ t2.k = "top" \/ t1.k = "bot" \/ t2.k = "unk" \/ t1.k = "unk"
           THEN add_return(TRUE)
         ELSE IF t1.k = "gfun" /\ t2.k = "gfun" THEN
           IF Len(t1.dom) # Len(t2.dom) THEN add_return(FALSE)
           ELSE [add EXCEPT !.stack = become("dom", 1, FALSE)]
         ELSE IF t1.k = "cls" /\ t2.k = "cls" THEN
           [add EXCEPT !.visited = Append(@, {}),
                       !.stack = <<Frame("call", t1, t2, 1, FALSE, Len(run.visited) + 1)>> \o rest]
         ELSE add_return(FALSE))
    [] top.kind = "edges" ->
         IF top.i > Len(environment.Es) THEN return(FALSE)
         ELSE IF environment.Es[top.i].source = t1 THEN
           [run EXCEPT !.stack = calling(environment.Es[top.i].target, t2, "edges_wait", top.i, FALSE),
                       !.result = <<>>]
         ELSE [run EXCEPT !.stack = become("edges", top.i + 1, FALSE)]
    [] top.kind = "edges_wait" ->
         IF run.result[1] THEN return(TRUE)
         ELSE [run EXCEPT !.stack = become("edges", top.i + 1, FALSE), !.result = <<>>]
    [] top.kind = "dom" ->
         IF top.i > Len(t1.dom) THEN
           [run EXCEPT !.stack = calling(t1.cod[1], t2.cod[1], "cod_wait", top.i, TRUE),
                       !.result = <<>>]
         ELSE
           [run EXCEPT !.stack = calling(t2.dom[top.i], t1.dom[top.i], "dom_wait", top.i, FALSE),
                       !.result = <<>>]
    [] top.kind = "dom_wait" ->
         IF run.result[1] THEN
           [run EXCEPT !.stack = become("dom", top.i + 1, FALSE), !.result = <<>>]
         ELSE
           [run EXCEPT !.stack = calling(t1.cod[1], t2.cod[1], "cod_wait", top.i, FALSE),
                       !.result = <<>>]
    [] top.kind = "cod_wait" -> return(top.acc /\ run.result[1])

MaxRunEdges == 3

RunEdges == {Edge(s, t) : s \in SubClasses, t \in SubClasses}

\* Every set of at most MaxRunEdges edges over the three class names,
\* self-loops and cycles included, listed in a fixed order.
RunEnvs ==
  {Environment(SubClasses, ListOf(es), EmptySigma(SubNames)) :
     es \in {x \in SUBSET RunEdges : Cardinality(x) <= MaxRunEdges}}

RunTypes ==
  SubClasses \cup {TopType, BottomType}
    \cup {FunctionType(<<A>>, B), FunctionType(<<B>>, A), FunctionType(<<A, B>>, A)}

RunGradualTypes ==
  SubClasses \cup {Unknown}
    \cup {GradualFunctionType(<<A>>, B), GradualFunctionType(<<B>>, A),
          GradualFunctionType(<<Unknown>>, A)}

\* visited=None, or a set the caller filled with the pair of the call.
StartVisited(t1, t2) == {{}, {<<t1, t2>>}}

Running == call # NoCall /\ ~call.done

Call_is_subtype_run ==
  /\ Idle
  /\ \E t1 \in RunTypes, t2 \in RunTypes :
       \E visited \in StartVisited(t1, t2) :
          call' = [op |-> "is_subtype", t1 |-> t1, t2 |-> t2, visited0 |-> visited,
                   stack |-> <<Frame("call", t1, t2, 1, FALSE, 1)>>,
                   visited |-> <<visited>>, result |-> <<>>, done |-> FALSE]
  /\ UNCHANGED <<env, ret>>

Call_is_gradual_subtype_run ==
  /\ Idle
  /\ \E t1 \in RunGradualTypes, t2 \in RunGradualTypes :
       \E visited \in StartVisited(t1, t2) :
          call' = [op |-> "is_gradual_subtype", t1 |-> t1, t2 |-> t2, visited0 |-> visited,
                   stack |-> <<Frame("gcall", t1, t2, 1, FALSE, 1)>>,
                   visited |-> <<visited>>, result |-> <<>>, done |-> FALSE]
  /\ UNCHANGED <<env, ret>>

\* The interpreter runs the innermost activation.
Step ==
  /\ Running
  /\ call.stack # <<>>
  /\ call' = step(env, call)
  /\ UNCHANGED <<env, ret>>

\* The outermost activation has returned: the caller has the result.
Finish ==
  /\ Running
  /\ call.stack = <<>>
  /\ call' = [call EXCEPT !.done = TRUE]
  /\ ret' = call.result[1]
  /\ UNCHANGED env

ReturnRun ==
  /\ call # NoCall
  /\ call.done
  /\ call' = NoCall
  /\ ret' = FALSE
  /\ UNCHANGED env

InitRun == env \in RunEnvs /\ call = NoCall /\ ret = FALSE

NextRun ==
  Call_is_subtype_run \/ Call_is_gradual_subtype_run \/ Step \/ Finish \/ ReturnRun

SpecRun == InitRun /\ [][NextRun]_vars

\* The interpreter runs a started call to its end: nothing in the code waits.
SpecRunFair == SpecRun /\ WF_vars(Step) /\ WF_vars(Finish)

\* The run agrees with is_subtype_v and is_gradual_subtype.
RunAgrees ==
  (call # NoCall /\ call.done) =>
    /\ call.op = "is_subtype" =>
         /\ ret = is_subtype_v(env, call.t1, call.t2, call.visited0).r
         /\ call.visited[1] = is_subtype_v(env, call.t1, call.t2, call.visited0).v
    /\ (call.op = "is_gradual_subtype" /\ call.visited0 = {}) =>
         ret = is_gradual_subtype(env, call.t1, call.t2)

\* Every visited set that exists keeps its pairs.
VisitedGrows ==
  (call # NoCall /\ call' # NoCall) =>
    /\ Len(call.visited) <= Len(call'.visited)
    /\ \A i \in 1..Len(call.visited) : call.visited[i] \subseteq call'.visited[i]

\* An activation whose pair is in its visited set returns False at once: no
\* set changes and no activation is started.
VisitedPairReturnsFalse ==
  (/\ Running
   /\ call.stack # <<>>
   /\ Head(call.stack).kind \in {"call", "gcall"}
   /\ <<Head(call.stack).t1, Head(call.stack).t2>> \in call.visited[Head(call.stack).vs])
    => /\ call'.result = <<FALSE>>
       /\ call'.stack = Tail(call.stack)
       /\ call'.visited = call.visited

\* A call entered with (t1, t2) in visited returns False.
EnteredVisitedIsFalse ==
  (call # NoCall /\ call.done /\ <<call.t1, call.t2>> \in call.visited0) => ret = FALSE

\* C26: every top-level call of is_subtype and is_gradual_subtype terminates,
\* in environments with cycles too: the visited sets only grow during a call,
\* a pair already in visited returns false without being expanded again, and
\* a call entered with a visited set that holds (t1, t2) returns false even
\* when the edge t1 -> t2 exists.
C26_CallsTerminate ==
  /\ Running ~> (call # NoCall /\ call.done)
  /\ [][VisitedGrows]_vars
  /\ [][VisitedPairReturnsFalse]_vars
  /\ []EnteredVisitedIsFalse

C26_Witness ==
  /\ call # NoCall
  /\ call.done
  /\ call.op = "is_subtype"
  /\ <<call.t1, call.t2>> \in call.visited0
  /\ is_direct_subtype(env, call.t1, call.t2)
  /\ HasPath(env, call.t2, call.t1)
  /\ ret = FALSE

(***************************************************************************)
(* Evidence-level join (gradual/evidence/functions.py).                    *)
(***************************************************************************)
\* Both bounds are joined, and a pair of bounds is kept when the upper
\* bound is a subtype of the lower bound.
join_evidence_intervals(environment, interval_1, interval_2) ==
  LET lower_bounds ==
        join(environment, interval_1.lower_bound, interval_2.lower_bound)
      upper_bounds ==
        join(environment, interval_1.upper_bound, interval_2.upper_bound)
  IN {EvidenceInterval(pair[1], pair[2]) :
        pair \in {pr \in lower_bounds \X upper_bounds :
                    is_subtype(environment, pr[2], pr[1])}}

\* The loops read .var of every pair of elements; for the first pair of
\* signatures of one name join_evidence_intervals is called on the two
\* signatures themselves, and reading lower_bound of an EvidenceSignature
\* raises AttributeError.  Without such a pair nothing is added.
join_evidence_specifications(environment, spec_1, spec_2) ==
  IF /\ spec_1 # {} /\ spec_2 # {}
     /\ \E sig \in spec_1 \cup spec_2 : ~IsSignature(sig)
  THEN AttributeError
  ELSE IF \E pr \in spec_1 \X spec_2 : pr[1].var = pr[2].var
  THEN AttributeError
  ELSE Returned({})

DiamondEnv ==
  Environment(LatClasses, <<Edge(B, A), Edge(C, A), Edge(D, B), Edge(D, C)>>,
              EmptySigma(LatNames))

JoinEnvs == {SixClassEnv, DiamondEnv, ChainEnv}

JoinIntervals(environment) ==
  {EvidenceInterval(l, u) :
     l \in environment.Ns \cup {BottomType}, u \in environment.Ns \cup {TopType}}

JoinSpecifications(environment) ==
  {{}} \cup {{EvidenceSignature("x", interval)} : interval \in JoinIntervals(environment)}
       \cup {{EvidenceSignature("x", EvidenceInterval(B, B)),
              EvidenceSignature("y", EvidenceInterval(A, A))},
             {EvidenceSignature("y", EvidenceInterval(B, A))}}

Call_join_evidence_intervals ==
  /\ Idle
  /\ \E interval_1 \in JoinIntervals(env), interval_2 \in JoinIntervals(env) :
       /\ call' = [op |-> "join_evidence_intervals",
                   interval_1 |-> interval_1, interval_2 |-> interval_2]
       /\ ret' = Returned(join_evidence_intervals(env, interval_1, interval_2))
  /\ UNCHANGED env

Call_join_evidence_specifications ==
  /\ Idle
  /\ \E spec_1 \in JoinSpecifications(env), spec_2 \in JoinSpecifications(env) :
       /\ call' = [op |-> "join_evidence_specifications",
                   spec_1 |-> spec_1, spec_2 |-> spec_2]
       /\ ret' = join_evidence_specifications(env, spec_1, spec_2)
  /\ UNCHANGED env

InitJoin == env \in JoinEnvs /\ call = NoCall /\ ret = Returned({})

ReturnJoin ==
  /\ call # NoCall
  /\ call' = NoCall
  /\ ret' = Returned({})
  /\ UNCHANGED env

NextJoin == Call_join_evidence_intervals \/ Call_join_evidence_specifications \/ ReturnJoin

SpecJoin == InitJoin /\ [][NextJoin]_vars

\* C27: the join of two intervals returns intervals whose lower bound is an
\* element of join(l1, l2) and whose upper bound is an element of
\* meet(u1, u2), and join_evidence_specifications applies this to the
\* intervals of the signatures that share a member name.
C27_JoinOfIntervals ==
  /\ call.op = "join_evidence_intervals" =>
       /\ ret.exc = ""
       /\ \A interval \in ret.value :
             /\ interval.lower_bound \in
                  join(env, call.interval_1.lower_bound, call.interval_2.lower_bound)
             /\ interval.upper_bound \in
                  meet(env, call.interval_1.upper_bound, call.interval_2.upper_bound)
  /\ call.op = "join_evidence_specifications" =>
       /\ ret.exc = ""
       /\ \A pr \in call.spec_1 \X call.spec_2 :
             pr[1].var = pr[2].var =>
               \A interval \in join_evidence_intervals(env, pr[1].interval, pr[2].interval) :
                  \E spec \in ret.value :
                     \E sig \in spec : sig = EvidenceSignature(pr[1].var, interval)

(***************************************************************************)
(* Consistent meet and join (gradual/functions.py).  The first case of the *)
(* match takes two function types; the second, case Type(), Type(), takes  *)
(* every pair of a class name, TopType, BottomType or function type and    *)
(* returns meet_unique in both functions; the cases after it are reached   *)
(* only with Unknown on one side.                                          *)
(***************************************************************************)
ValueError == [exc |-> "ValueError", value |-> None]

\* isinstance(t, Type): everything but Unknown.
IsStaticType(t) == t.k \in {"cls", "top", "bot", "fun", "gfun"}

RECURSIVE meet_unique_consistent(_, _, _)
RECURSIVE join_unique_consistent(_, _, _)
RECURSIVE consistent_args(_, _, _, _)

\* [f(environment, a1, a2) for a1, a2 in zip(fi1, fi2)], f being
\* join_unique_consistent when joining and meet_unique_consistent otherwise.
\* The result is the list of the values, or the exception a call raised.
consistent_args(environment, fi1, fi2, joining) ==
  IF fi1 = <<>> THEN [exc |-> "", value |-> <<>>]
  ELSE
    LET a == IF joining
             THEN join_unique_consistent(environment, Head(fi1), Head(fi2))
             ELSE meet_unique_consistent(environment, Head(fi1), Head(fi2))
        others == consistent_args(environment, Tail(fi1), Tail(fi2), joining)
    IN IF a.exc # "" THEN [exc |-> a.exc, value |-> <<>>]
       ELSE IF others.exc # "" THEN others
       ELSE [exc |-> "", value |-> <<a.value>> \o others.value]

\* The cases of the match below the one on two function types.
consistent_cases(environment, ti, tj) ==
  IF IsStaticType(ti) /\ IsStaticType(tj) THEN meet_unique(environment, ti, tj)
  ELSE IF ti.k = "bot" \/ tj.k = "bot" THEN BottomType
  ELSE IF ti.k = "top" THEN tj
  ELSE IF tj.k = "top" THEN ti
  ELSE IF ti.k = "unk" \/ tj.k = "unk" THEN Unknown
  ELSE None

\* The case on two function types, given the two calls it makes.
consistent_function(args, codomain) ==
  IF args.exc # "" THEN ValueError
  ELSE IF \E i \in 1..Len(args.value) : args.value[i] = None THEN Returned(None)
  ELSE IF codomain.exc # "" THEN ValueError
  ELSE IF codomain.value = None THEN Returned(None)
  ELSE Returned(GradualFunctionType(args.value, codomain.value))

meet_unique_consistent(environment, ti, tj) ==
  IF ti.k = "gfun" /\ tj.k = "gfun" THEN
    IF Len(ti.dom) # Len(tj.dom) THEN ValueError
    ELSE consistent_function(consistent_args(environment, ti.dom, tj.dom, TRUE),
                             meet_unique_consistent(environment, ti.cod[1], tj.cod[1]))
  ELSE Returned(consistent_cases(environment, ti, tj))

join_unique_consistent(environment, ti, tj) ==
  IF ti.k = "gfun" /\ tj.k = "gfun" THEN
    IF Len(ti.dom) # Len(tj.dom) THEN ValueError
    ELSE consistent_function(consistent_args(environment, ti.dom, tj.dom, FALSE),
                             join_unique_consistent(environment, ti.cod[1], tj.cod[1]))
  ELSE Returned(consistent_cases(environment, ti, tj))

ConsEnvs == {SixClassEnv, DiamondEnv, ChainEnv}

ConsComponents == {B, C, Unknown}

ConsFunTypes ==
  {GradualFunctionType(d, c) : d \in Tuples(ConsComponents, MaxArity), c \in ConsComponents}
    \cup {GradualFunctionType(<<GradualFunctionType(<<B>>, C)>>, B),
          GradualFunctionType(<<GradualFunctionType(<<B, C>>, C)>>, B)}

ConsArgs(environment) ==
  environment.Ns \cup {TopType, BottomType, Unknown} \cup ConsFunTypes

Call_meet_unique_consistent ==
  /\ Idle
  /\ \E ti \in ConsArgs(env), tj \in ConsArgs(env) :
       /\ call' = [op |-> "meet_unique_consistent", t1 |-> ti, t2 |-> tj]
       /\ ret' = meet_unique_consistent(env, ti, tj)
  /\ UNCHANGED env

Call_join_unique_consistent ==
  /\ Idle
  /\ \E ti \in ConsArgs(env), tj \in ConsArgs(env) :
       /\ call' = [op |-> "join_unique_consistent", t1 |-> ti, t2 |-> tj]
       /\ ret' = join_unique_consistent(env, ti, tj)
  /\ UNCHANGED env

InitCons == env \in ConsEnvs /\ call = NoCall /\ ret = Returned(None)

ReturnCons ==
  /\ call # NoCall
  /\ call' = NoCall
  /\ ret' = Returned(None)
  /\ UNCHANGED env

NextCons == Call_meet_unique_consistent \/ Call_join_unique_consistent \/ ReturnCons

SpecCons == InitCons /\ [][NextCons]_vars

\* Two function types of one arity whose components are class names.
ClassFunctions(t1, t2) ==
  /\ t1.k = "gfun" /\ t2.k = "gfun"
  /\ Len(t1.dom) = Len(t2.dom)
  /\ \A i \in 1..Len(t1.dom) : t1.dom[i].k = "cls" /\ t2.dom[i].k = "cls"
  /\ t1.cod[1].k = "cls" /\ t2.cod[1].k = "cls"

\* The function type of the componentwise results, None when one is None:
\* unique joins of the domain components and the unique meet of the codomains
\* when meeting, unique meets and the unique join otherwise.
Componentwise(t1, t2, meeting) ==
  LET args == [i \in 1..Len(t1.dom) |->
                 IF meeting THEN join_unique(env, t1.dom[i], t2.dom[i])
                 ELSE meet_unique(env, t1.dom[i], t2.dom[i])]
      codomain == IF meeting THEN meet_unique(env, t1.cod[1], t2.cod[1])
                  ELSE join_unique(env, t1.cod[1], t2.cod[1])
  IN IF codomain = None \/ \E i \in 1..Len(args) : args[i] = None THEN None
     ELSE GradualFunctionType(args, codomain)

\* C28: on two function types of equal arity meet_unique_consistent returns
\* the function type of the unique joins of the domain components and the
\* unique meet of the codomains, and join_unique_consistent the one of the
\* unique meets of the domain components and the unique join of the
\* codomains; on two class names join_unique_consistent returns their unique
\* join and meet_unique_consistent their unique meet; both raise an error
\* when the two function types differ in arity.
C28_ConsistentMeetAndJoin ==
  /\ (call.op = "meet_unique_consistent" /\ ClassFunctions(call.t1, call.t2)) =>
       ret = Returned(Componentwise(call.t1, call.t2, TRUE))
  /\ (call.op = "join_unique_consistent" /\ ClassFunctions(call.t1, call.t2)) =>
       ret = Returned(Componentwise(call.t1, call.t2, FALSE))
  /\ (call.op = "meet_unique_consistent" /\ call.t1.k = "cls" /\ call.t2.k = "cls") =>
       ret = Returned(meet_unique(env, call.t1, call.t2))
  /\ (call.op = "join_unique_consistent" /\ call.t1.k = "cls" /\ call.t2.k = "cls") =>
       ret = Returned(join_unique(env, call.t1, call.t2))
  /\ (/\ call.op \in {"meet_unique_consistent", "join_unique_consistent"}
      /\ call.t1.k = "gfun" /\ call.t2.k = "gfun"
      /\ Len(call.t1.dom) # Len(call.t2.dom)) => ret.exc # ""

\* C29: in an acyclic environment the result of get_specifications does not
\* depend on the order in which the parents' specifications are enumerated:
\* every order gives the same type for a member, or drops it in every order.
C29_OrderIndependence ==
  (call.op \in {"get_specifications", "gradual_get_specifications"} /\ Acyclic(env)) =>
    \A order \in Orders(get_all_parent_specifications(env, call.n)) :
       ret = IF call.op = "get_specifications"
             THEN get_specifications(env, call.n, order)
             ELSE gradual_get_specifications(env, call.n, order)

(***************************************************************************)
(* The intervals that lift_gradual_type, interior_types and                *)
(* meet_evidence_intervals produce, over the gradual types: class names,   *)
(* TopType, BottomType, Unknown and gradual function types.                *)
(***************************************************************************)
IvEnvs == {SixClassEnv, DiamondEnv} \cup SubSpecEnvs

IvBounds(environment) == environment.Ns \cup {BottomType, TopType, Unknown}

IvIntervals(environment) ==
  {EvidenceInterval(l, u) : l \in IvBounds(environment), u \in IvBounds(environment)}
    \cup {EvidenceInterval(GradualFunctionType(<<A>>, B), GradualFunctionType(<<A>>, B)),
          EvidenceInterval(GradualFunctionType(<<A>>, B), GradualFunctionType(<<B>>, B))}

Call_meet_evidence_intervals ==
  /\ Idle
  /\ \E interval_1 \in IvIntervals(env), interval_2 \in IvIntervals(env) :
       /\ call' = [op |-> "meet_evidence_intervals",
                   interval_1 |-> interval_1, interval_2 |-> interval_2]
       /\ ret' = meet_evidence_intervals(env, interval_1, interval_2)
  /\ UNCHANGED env

InitIv == env \in IvEnvs /\ call = NoCall /\ ret = FALSE

NextIv ==
  \/ Call_lift_gradual_type
  \/ Call_interior_types
  \/ Call_meet_evidence_intervals
  \/ Return

SpecIv == InitIv /\ [][NextIv]_vars

\* The lower bound is a gradual subtype of the upper bound.
WellFormed(environment, interval) ==
  is_gradual_subtype(environment, interval.lower_bound, interval.upper_bound)

NonFunction(t) == t.k \notin {"fun", "gfun"}

\* The pairs of an element of meet(l1, l2) and an element of meet(u1, u2).
MeetOfBounds(environment, interval_1, interval_2) ==
  meet(environment, interval_1.lower_bound, interval_2.lower_bound)
    \X meet(environment, interval_1.upper_bound, interval_2.upper_bound)

====
